---- MODULE Spec2Model ----
(***************************************************************************)
(* Model of the Firestore data-access tools of project_librarian           *)
(* (src/v1/common/firestore_tools.py): the recursive subtask fetcher, the  *)
(* advice scheduling queue, the project create/update/read operations,     *)
(* the user task scan and the team context aggregation; and of the         *)
(* coordinator's executor (src/v0/coordinator/executor.py).                *)
(*                                                                         *)
(* Instants are whole minutes of UTC time.                                  *)
(* Python values of mixed type (str / None / bool / DocumentReference)     *)
(* are tagged records [t |-> tag, v |-> sequence of characters].           *)
(***************************************************************************)
EXTENDS Integers, Sequences, FiniteSets, TLC

VARIABLES
    parentOf,       \* subTasks tree of the store: node -> owning document (0 = the task)
    failNodes,      \* documents whose subTasks stream raises a store error
    adviceQueue,    \* adviceQueue collection: id -> stored document
    now,            \* the clock (an instant, minutes)
    projects,       \* projects collection: id -> stored document
    workers,        \* external advice workers: pc, the list they read, the item they claimed
    executedBy,     \* advice id -> set of workers that executed it
    mappings,       \* a2a_session_mappings: context_id -> stored session_id
    sessions,       \* the sessions the session service has created, in order
    execs,          \* the execute calls: position, context, session, task state
    users,          \* users collection: email -> user document and context sub-collections
    tasks,          \* tasks sub-collections: task id -> stored task document
    subStatus,      \* subtask document -> its stored status
    calls,          \* update calls in flight: caller -> position and update_data
    landings,       \* the store updates of those calls, in the order they landed
    lastCall,       \* the arguments of the last operation called
    ret             \* what the last operation returned

vars == <<parentOf, failNodes, adviceQueue, now, projects, workers, executedBy, mappings,
          sessions, execs, users, tasks,
          subStatus, calls, landings, lastCall, ret>>

---------------------------------------------------------------------------
(* Bounds *)

MaxNodes == 4          \* subtask documents under the task
MaxLevelArg == 4       \* largest level / max_level argument tried
MaxAdvice == 2         \* advice items the queue may hold
MaxCreated == 1        \* advice items created when creation is examined alone
MaxProjects == 2       \* project documents the store may hold
NumWorkers == 2        \* advice workers polling the queue
MaxTasks == 2          \* task documents in the store

(* Program constants *)

DefaultMaxLevel == 3   \* max_level=3
DefaultLevel == 1      \* level=1
SubtaskStartLevel == 2 \* _get_specific_subtask: level=2

None == [t |-> "none", v |-> <<>>]
Str(s) == [t |-> "str", v |-> s]

\* Python truthiness of a value
Truthy(x) == x.t = "ref" \/ (x.t \in {"str", "bool"} /\ x.v # <<>>)

---------------------------------------------------------------------------
(* Recursive Subtree Fetcher                                               *)

Nodes == 1..MaxNodes
TaskDoc == 0
MissingDoc == MaxNodes + 1      \* an id that names no stored document

\* subtasks_collection.stream(): the existing children of a document, in
\* document-id order
RECURSIVE SeqOfSet(_)
SeqOfSet(S) ==
    IF S = {} THEN <<>>
    ELSE LET m == CHOOSE x \in S : \A y \in S : x <= y
         IN <<m>> \o SeqOfSet(S \ {m})

StreamSubTasks(ref) == SeqOfSet({n \in Nodes : parentOf[n] = ref})

MaxLevelReached_off(level, max_level) == level > max_level + 1

\* if level > max_level: return []
MaxLevelReached(level, max_level) == level > max_level

\* subtask_doc.to_dict() and the annotations written on every streamed subtask
SubtaskDict(doc, ref, level) ==
    [taskId |-> doc, status |-> subStatus[doc], isSubTask |-> TRUE,
     parentTaskPath |-> ref, nestingLevel |-> level]

StreamRaises_anywhere(ref) == failNodes # {}

\* subtasks_collection.stream() raises for this document
StreamRaises(ref) == ref \in failNodes

RECURSIVE _get_subtasks_recursively(_, _, _)
RECURSIVE CollectSubtasks(_, _, _, _)
RECURSIVE CollectSubtasks_siblingsFirst(_, _, _, _)

CollectSubtasks_siblingsFirst(docs, ref, level, max_level) ==
    IF docs = <<>> THEN <<>>
    ELSE <<SubtaskDict(Head(docs), ref, level)>>
         \o CollectSubtasks_siblingsFirst(Tail(docs), ref, level, max_level)
         \o _get_subtasks_recursively(Head(docs), level + 1, max_level)

\* the for-loop: append the child, then extend with its own descendants
CollectSubtasks(docs, ref, level, max_level) ==
    IF docs = <<>> THEN <<>>
    ELSE <<SubtaskDict(Head(docs), ref, level)>>
         \o _get_subtasks_recursively(Head(docs), level + 1, max_level)
         \o CollectSubtasks(Tail(docs), ref, level, max_level)

_get_subtasks_recursively(ref, level, max_level) ==
    IF MaxLevelReached(level, max_level) THEN <<>>
    ELSE IF StreamRaises(ref) THEN <<>>        \* except Exception: return []
    ELSE CollectSubtasks(StreamSubTasks(ref), ref, level, max_level)

\* a direct call of the fetcher with explicit level and max_level
FetchSubtree(ref, level, max_level) ==
    /\ lastCall' = [op |-> "_get_subtasks_recursively", ref |-> ref,
                    level |-> level, max_level |-> max_level]
    /\ ret' = [kind |-> "subtasks",
               subTasks |-> _get_subtasks_recursively(ref, level, max_level)]
    /\ UNCHANGED <<mappings, sessions, execs, users, tasks, subStatus, calls, landings, parentOf, failNodes, adviceQueue, now, projects, workers, executedBy>>

\* _get_specific_task: the task document plus its subtree from level 1
GetSpecificTask(task_id, storeOk) ==
    /\ lastCall' = [op |-> "_get_specific_task", ref |-> task_id,
                    level |-> DefaultLevel, max_level |-> DefaultMaxLevel]
    /\ ret' = IF ~storeOk THEN [kind |-> "error", subTasks |-> <<>>]
              ELSE IF task_id = TaskDoc
              THEN [kind |-> "task", nestingLevel |-> 0,
                    subTasks |-> _get_subtasks_recursively(task_id, DefaultLevel, DefaultMaxLevel)]
              ELSE [kind |-> "not_found", subTasks |-> <<>>]
    /\ UNCHANGED <<mappings, sessions, execs, users, tasks, subStatus, calls, landings, parentOf, failNodes, adviceQueue, now, projects, workers, executedBy>>

\* _get_specific_subtask: a direct child of the task plus its subtree from level 2
GetSpecificSubtask(parent_task_id, sub_task_id, storeOk) ==
    /\ lastCall' = [op |-> "_get_specific_subtask", ref |-> sub_task_id,
                    level |-> SubtaskStartLevel, max_level |-> DefaultMaxLevel]
    /\ ret' = IF ~storeOk THEN [kind |-> "error", subTasks |-> <<>>]
              ELSE IF parent_task_id = TaskDoc /\ sub_task_id \in Nodes
                      /\ parentOf[sub_task_id] = TaskDoc
              THEN [kind |-> "subtask", nestingLevel |-> 1,
                    subTasks |-> _get_subtasks_recursively(sub_task_id, SubtaskStartLevel,
                                                           DefaultMaxLevel)]
              ELSE [kind |-> "not_found", subTasks |-> <<>>]
    /\ UNCHANGED <<mappings, sessions, execs, users, tasks, subStatus, calls, landings, parentOf, failNodes, adviceQueue, now, projects, workers, executedBy>>

---------------------------------------------------------------------------
(* Advice Scheduling Queue                                                 *)
(* An instant is a number of minutes of UTC time; the JST wall clock of an *)
(* instant is the instant plus the zone offset.                            *)

JstOffsetMin == 540        \* ZoneInfo("Asia/Tokyo"): UTC+9
WindowStartHour == 9       \* hour < 9
WindowEndHour == 18        \* hour >= 18
DefaultDelay == 15         \* priority_to_delay.get(priority, 15)
NoTime == -1               \* "processed_at": None

\* the instant whose JST wall clock reads day d, h:m
AtJst(d, h, m) == d * 1440 + h * 60 + m - JstOffsetMin

\* an ISO-8601 string: a wall clock reading and a UTC offset ("Z" is offset 0)
Iso(d, h, m, offset) == [fmt |-> "iso", wall |-> d * 1440 + h * 60 + m, offset |-> offset]
Malformed == [fmt |-> "bad", wall |-> 0, offset |-> 0]

\* datetime.fromisoformat(suggested_time.replace("Z", "+00:00")): the instant
fromisoformat(s) == s.wall - s.offset

\* jst_time.hour, the hour of the JST wall clock of an instant
JstHour(t) == ((t + JstOffsetMin) \div 60) % 24

priority_to_delay_comment(priority) ==
    CASE priority = 5 -> 5
      [] priority = 4 -> 10
      [] priority = 3 -> 15
      [] priority = 2 -> 20
      [] priority = 1 -> 30
      [] OTHER -> DefaultDelay

\* priority_to_delay.get(priority, 15)
priority_to_delay(priority) ==
    CASE priority = 5 -> 10
      [] priority = 4 -> 15
      [] priority = 3 -> 20
      [] priority = 2 -> 25
      [] priority = 1 -> 30
      [] OTHER -> DefaultDelay

IsPastDue_strict(jst_time, current_time) == jst_time < current_time

\* if jst_time <= current_time
IsPastDue(jst_time, current_time) == jst_time <= current_time

\* the past-due adjustment: the instant the hour check is applied to
EffectiveTime(suggested_time, priority, current_time) ==
    IF IsPastDue(fromisoformat(suggested_time), current_time)
    THEN current_time + priority_to_delay(priority)
    ELSE fromisoformat(suggested_time)

OutsideWindow_inclusive(hour) == hour < WindowStartHour \/ hour > WindowEndHour

\* if hour < 9 or hour >= 18
OutsideWindow(hour) == hour < WindowStartHour \/ hour >= WindowEndHour

\* "status": "pending"
InitialStatus == "pending"

\* doc_data
AdviceDoc(user_email, project_id, task_id, advice_type, priority, reason, advice_time, current_time) ==
    [user_email |-> user_email, project_id |-> project_id, task_id |-> task_id,
     advice_type |-> advice_type, priority |-> priority, reason |-> reason,
     advice_time |-> advice_time, status |-> InitialStatus,
     created_at |-> current_time, processed_at |-> NoTime, result |-> None]

\* the time written in the confirmation message: "Time: {suggested_time}"
ReportedTime(suggested_time, advice_time) == suggested_time

firestore_create_advice_queue(user_email, project_id, task_id, advice_type, priority, reason, suggested_time, storeOk) ==
    /\ lastCall' = [op |-> "firestore_create_advice_queue", user_email |-> user_email,
                    priority |-> priority, suggested_time |-> suggested_time,
                    current_time |-> now]
    /\ IF suggested_time.fmt # "iso"
       THEN \* except ValueError
            /\ ret' = [kind |-> "invalid_format"]
            /\ UNCHANGED adviceQueue
       ELSE LET jst_time == EffectiveTime(suggested_time, priority, now)
            IN IF OutsideWindow(JstHour(jst_time))
               THEN /\ ret' = [kind |-> "invalid_time"]
                    /\ UNCHANGED adviceQueue
               ELSE IF ~storeOk
               THEN \* except Exception
                    /\ ret' = [kind |-> "error"]
                    /\ UNCHANGED adviceQueue
               ELSE /\ adviceQueue' = Append(adviceQueue,
                            AdviceDoc(user_email, project_id, task_id, advice_type,
                                      priority, reason, jst_time, now))
                    /\ ret' = [kind |-> "queued", id |-> Len(adviceQueue) + 1,
                               time |-> ReportedTime(suggested_time, jst_time)]
    /\ UNCHANGED <<mappings, sessions, execs, users, tasks, subStatus, calls, landings, parentOf, failNodes, now, projects, workers, executedBy>>

ActiveStatuses_all == {"pending", "processing", "completed"}

\* .where("status", "in", ["pending", "processing"])
ActiveStatuses == {"pending", "processing"}

\* the three where-clauses of the query
MatchesQuery(doc, user_email, threshold_time) ==
    /\ doc.status \in ActiveStatuses
    /\ (Truthy(user_email) => doc.user_email = user_email)      \* if user_email:
    /\ doc.created_at >= threshold_time

\* list(query.stream()): the ids of the matching documents
QueryPending(user_email, hours, current_time) ==
    {id \in 1..Len(adviceQueue) :
        MatchesQuery(adviceQueue[id], user_email, current_time - hours * 60)}

\* advice_data = doc.to_dict(); advice_data["id"] = doc.id
AdviceData(id) ==
    [id |-> id, user_email |-> adviceQueue[id].user_email,
     priority |-> adviceQueue[id].priority, status |-> adviceQueue[id].status,
     advice_time |-> adviceQueue[id].advice_time,
     created_at |-> adviceQueue[id].created_at]

PendingResult(user_email, hours, storeOk) ==
    IF ~storeOk THEN [kind |-> "empty", items |-> <<>>]       \* except: return "[]"
    ELSE LET ids == QueryPending(user_email, hours, now)
         IN IF ids = {} THEN [kind |-> "empty", items |-> <<>>]
            ELSE [kind |-> "list",
                  items |-> [i \in 1..Cardinality(ids) |-> AdviceData(SeqOfSet(ids)[i])]]

firestore_get_pending_advice_queue(user_email, hours, storeOk) ==
    /\ lastCall' = [op |-> "firestore_get_pending_advice_queue", user_email |-> user_email,
                    hours |-> hours, current_time |-> now]
    /\ ret' = PendingResult(user_email, hours, storeOk)
    /\ UNCHANGED <<mappings, sessions, execs, users, tasks, subStatus, calls, landings, parentOf, failNodes, adviceQueue, now, projects, workers, executedBy>>

StoredStatus_keep(doc, status) == doc.status

\* update_data["status"]: the status argument, whatever it is
StoredStatus(doc, status) == status

StoredResult_overwrite(doc, result) == result

\* `if result is not None: update_data["result"] = result`
StoredResult(doc, result) == IF result # None THEN result ELSE doc.result

\* update_data applied to the stored document
UpdatedAdvice(doc, status, result, current_time) ==
    [doc EXCEPT !.status = StoredStatus(doc, status),
                !.processed_at = current_time,
                !.result = StoredResult(doc, result)]

UpdateAdviceStore_upsert(queue_id, status, result, storeOk) ==
    IF ~storeOk THEN adviceQueue
    ELSE IF queue_id \in 1..Len(adviceQueue)
    THEN [adviceQueue EXCEPT ![queue_id] = UpdatedAdvice(@, status, result, now)]
    ELSE Append(adviceQueue,
                UpdatedAdvice(AdviceDoc(None, None, None, None, 0, None, NoTime, NoTime),
                              status, result, now))

\* .document(queue_id).update(update_data): fails when the document is absent
UpdateAdviceStore(queue_id, status, result, storeOk) ==
    IF storeOk /\ queue_id \in 1..Len(adviceQueue)
    THEN [adviceQueue EXCEPT ![queue_id] = UpdatedAdvice(@, status, result, now)]
    ELSE adviceQueue

firestore_update_advice_queue_status(queue_id, status, result, storeOk) ==
    /\ lastCall' = [op |-> "firestore_update_advice_queue_status", queue_id |-> queue_id,
                    status |-> status, result |-> result, current_time |-> now]
    /\ adviceQueue' = UpdateAdviceStore(queue_id, status, result, storeOk)
    /\ ret' = IF storeOk /\ queue_id \in 1..Len(adviceQueue)
              THEN [kind |-> "updated"] ELSE [kind |-> "error"]
    /\ UNCHANGED <<mappings, sessions, execs, users, tasks, subStatus, calls, landings, parentOf, failNodes, now, projects, workers, executedBy>>

\* datetime.now(): the clock reads a later instant
Tick(t) ==
    /\ t > now
    /\ now' = t
    /\ UNCHANGED <<mappings, sessions, execs, users, tasks, subStatus, calls, landings, parentOf, failNodes, adviceQueue, projects, workers, executedBy,
                   lastCall, ret>>

---------------------------------------------------------------------------
(* External advice workers: each polls the pending list, marks an item     *)
(* processing, executes it and records the outcome.                        *)

DefaultHours == 24         \* hours: int = 24

Workers == 1..NumWorkers
IdleWorker == [pc |-> "idle", seen |-> {}, item |-> 0]

\* the worker reads firestore_get_pending_advice_queue()
WorkerRead(w) ==
    /\ workers[w].pc = "idle"
    /\ workers' = [workers EXCEPT ![w] =
                      [pc |-> "read", seen |-> QueryPending(None, DefaultHours, now),
                       item |-> 0]]
    /\ lastCall' = [op |-> "firestore_get_pending_advice_queue", user_email |-> None,
                    hours |-> DefaultHours, current_time |-> now]
    /\ ret' = PendingResult(None, DefaultHours, TRUE)
    /\ UNCHANGED <<mappings, sessions, execs, users, tasks, subStatus, calls, landings, parentOf, failNodes, adviceQueue, now, projects, executedBy>>

\* nothing was listed: the worker polls again later
WorkerSkip(w) ==
    /\ workers[w].pc = "read"
    /\ workers[w].seen = {}
    /\ workers' = [workers EXCEPT ![w] = IdleWorker]
    /\ UNCHANGED <<mappings, sessions, execs, users, tasks, subStatus, calls, landings, parentOf, failNodes, adviceQueue, now, projects, executedBy,
                   lastCall, ret>>

\* the worker calls firestore_update_advice_queue_status(id, "processing")
WorkerClaim(w, id) ==
    /\ workers[w].pc = "read"
    /\ id \in workers[w].seen
    /\ adviceQueue' = UpdateAdviceStore(id, "processing", None, TRUE)
    /\ workers' = [workers EXCEPT ![w] = [pc |-> "claimed", seen |-> {}, item |-> id]]
    /\ lastCall' = [op |-> "firestore_update_advice_queue_status", queue_id |-> id,
                    status |-> "processing", result |-> None, current_time |-> now]
    /\ ret' = [kind |-> "updated"]
    /\ UNCHANGED <<mappings, sessions, execs, users, tasks, subStatus, calls, landings, parentOf, failNodes, now, projects, executedBy>>

\* the worker delivers the advice
WorkerExecute(w) ==
    /\ workers[w].pc = "claimed"
    /\ executedBy' = [executedBy EXCEPT ![workers[w].item] = @ \cup {w}]
    /\ workers' = [workers EXCEPT ![w].pc = "executed"]
    /\ UNCHANGED <<mappings, sessions, execs, users, tasks, subStatus, calls, landings, parentOf, failNodes, adviceQueue, now, projects, lastCall, ret>>

\* the worker calls firestore_update_advice_queue_status(id, "completed" | "failed", result)
WorkerRecord(w, status) ==
    /\ workers[w].pc = "executed"
    /\ adviceQueue' = UpdateAdviceStore(workers[w].item, status,
                                        Str(<<"o", "k">>), TRUE)
    /\ workers' = [workers EXCEPT ![w] = IdleWorker]
    /\ lastCall' = [op |-> "firestore_update_advice_queue_status",
                    queue_id |-> workers[w].item, status |-> status,
                    result |-> Str(<<"o", "k">>), current_time |-> now]
    /\ ret' = [kind |-> "updated"]
    /\ UNCHANGED <<mappings, sessions, execs, users, tasks, subStatus, calls, landings, parentOf, failNodes, now, projects, executedBy>>

---------------------------------------------------------------------------
(* Projects: create and update                                             *)
(* A Python dict is a function from its keys to tagged values; a supplied  *)
(* member is a dict or a string; an optional list argument is              *)
(* [given, list].                                                          *)

Bool(b) == [t |-> "bool", v |-> IF b THEN <<"T">> ELSE <<>>]
Ref(email) == [t |-> "ref", v |-> email]        \* db.collection("users").document(email)
Absent == [t |-> "absent", v |-> <<>>]          \* the document has no such field

DictMember(d) == [kind |-> "dict", s |-> <<>>, d |-> d]
StrMember(s) == [kind |-> "str", s |-> s, d |-> <<>>]
NoList == [given |-> FALSE, list |-> <<>>]
List(l) == [given |-> TRUE, list |-> l]

\* any(m.values())
AnyValue(d) == \E k \in DOMAIN d : Truthy(d[k])

\* m.get(key)
Get(d, key) == IF key \in DOMAIN d THEN d[key] ELSE None

\* isinstance(user_email_member, str) and "@" in user_email_member
IsAddress(x) == x.t = "str" /\ \E i \in 1..Len(x.v) : x.v[i] = "@"

\* user_email_member = m.get("userRef") or m.get("email")
MemberIdentity(d) ==
    IF Truthy(Get(d, "userRef")) THEN Get(d, "userRef") ELSE Get(d, "email")

\* the body of the member loop: userRef becomes a reference, email is deleted
NormalizeMember(d) ==
    IF IsAddress(MemberIdentity(d))
    THEN [k \in (DOMAIN d \cup {"userRef"}) \ {"email"} |->
              IF k = "userRef" THEN Ref(MemberIdentity(d).v) ELSE d[k]]
    ELSE d

\* m.values() on a str raises AttributeError; "" is falsy and never reaches it
RaisesOnMember(m) == m.kind = "str" /\ m.s # <<>>

\* `not member or not any(member.values())`: the entry is skipped
SkipsMember(m) ==
    \/ m.kind = "str" /\ m.s = <<>>
    \/ m.kind = "dict" /\ (DOMAIN m.d = {} \/ ~AnyValue(m.d))

\* processed_members.append(m) runs for every member that was not skipped
KeepsMember(m) == ~SkipsMember(m)

RECURSIVE ProcessMembers(_)
ProcessMembers(members) ==
    IF members = <<>> THEN <<>>
    ELSE IF KeepsMember(Head(members))
         THEN <<NormalizeMember(Head(members).d)>> \o ProcessMembers(Tail(members))
         ELSE ProcessMembers(Tail(members))

MembersRaise(members) == \E i \in 1..Len(members) : RaisesOnMember(members[i])

StoredRules_normalized(rules) ==
    [i \in 1..Len(rules) |->
        [rules[i] EXCEPT !.priority = IF @ = "critical" THEN "mandatory" ELSE @]]

\* "rules": rules -- the list is written as supplied
StoredRules(rules) == rules

\* if not project_name
NameMissing_noneOnly(project_name) == project_name = None

NameMissing(project_name) == ~Truthy(project_name)

\* x or default
OrElse(x, default) == IF Truthy(x) THEN x ELSE default

\* project_data
ProjectData(user_email, project_name, project_overview, status, members, rules, current_time, project_id) ==
    [projectName |-> project_name,
     projectOverview |-> OrElse(project_overview, Str(<<>>)),
     status |-> OrElse(status, Str(<<"o", "p", "e", "n">>)),
     projectOwner |-> <<user_email>>,
     rules |-> StoredRules(rules),
     createdAt |-> current_time,
     updatedAt |-> current_time,
     createdBy |-> user_email,
     updatedBy |-> Absent,
     members |-> ProcessMembers(members),
     projectId |-> project_id]

firestore_create_project(user_email, project_name, project_overview, status, members, rules, storeOk) ==
    /\ lastCall' = [op |-> "firestore_create_project", user_email |-> user_email,
                    project_name |-> project_name, members |-> members,
                    rules |-> rules, current_time |-> now]
    /\ IF NameMissing(project_name)
       THEN /\ ret' = [kind |-> "error"]
            /\ UNCHANGED projects
       ELSE IF MembersRaise(members.list)
       THEN \* the filter runs before the try block: the AttributeError escapes
            /\ ret' = [kind |-> "raised"]
            /\ UNCHANGED projects
       ELSE IF ~storeOk
       THEN /\ ret' = [kind |-> "error"]
            /\ UNCHANGED projects
       ELSE /\ projects' = Append(projects,
                    ProjectData(user_email, project_name, project_overview, status,
                                members.list, rules.list, now, Len(projects) + 1))
            /\ ret' = [kind |-> "project", projectId |-> Len(projects) + 1,
                       projectName |-> project_name]
    /\ UNCHANGED <<mappings, sessions, execs, users, tasks, subStatus, calls, landings, parentOf, failNodes, adviceQueue, now, workers, executedBy>>

\* list(update_data.keys())
UpdatedFields(project_name, status, project_overview, members, rules) ==
    {"updatedAt", "updatedBy"}
    \cup (IF project_name # None THEN {"projectName"} ELSE {})
    \cup (IF status # None THEN {"status"} ELSE {})
    \cup (IF project_overview # None THEN {"projectOverview"} ELSE {})
    \cup (IF members.given THEN {"members"} ELSE {})
    \cup (IF rules.given THEN {"rules"} ELSE {})

PatchFields == {"projectName", "status", "projectOverview", "members", "rules"}

UpdateData_full(project_name, status, project_overview, members, rules, user_email, current_time) ==
    [f \in PatchFields \cup {"updatedAt", "updatedBy"} |->
        CASE f = "updatedAt" -> current_time
          [] f = "updatedBy" -> user_email
          [] f = "projectName" -> project_name
          [] f = "status" -> status
          [] f = "projectOverview" -> project_overview
          [] f = "members" -> ProcessMembers(members.list)
          [] f = "rules" -> StoredRules(rules.list)]

\* update_data: the two stamps and one key per argument that is not None
UpdateData(project_name, status, project_overview, members, rules, user_email, current_time) ==
    [f \in UpdatedFields(project_name, status, project_overview, members, rules) |->
        CASE f = "updatedAt" -> current_time
          [] f = "updatedBy" -> user_email
          [] f = "projectName" -> project_name
          [] f = "status" -> status
          [] f = "projectOverview" -> project_overview
          [] f = "members" -> ProcessMembers(members.list)
          [] f = "rules" -> StoredRules(rules.list)]

ApplyUpdate_replace(doc, update_data) ==
    [f \in DOMAIN doc |->
        IF f \in DOMAIN update_data THEN update_data[f]
        ELSE IF f \in PatchFields THEN Absent
        ELSE doc[f]]

\* project_ref.update(update_data): the named fields are written, the rest stay
ApplyUpdate(doc, update_data) ==
    [f \in DOMAIN doc \cup DOMAIN update_data |->
        IF f \in DOMAIN update_data THEN update_data[f] ELSE doc[f]]

\* update_data applied to the stored document
UpdatedProject(doc, project_name, status, project_overview, members, rules, user_email, current_time) ==
    ApplyUpdate(doc, UpdateData(project_name, status, project_overview, members, rules,
                                user_email, current_time))

\* project_id: 0 stands for the empty string
firestore_update_project(project_id, project_name, status, project_overview, members, rules, user_email, storeOk) ==
    /\ lastCall' = [op |-> "firestore_update_project", project_id |-> project_id,
                    user_email |-> user_email, project_name |-> project_name,
                    status |-> status, project_overview |-> project_overview,
                    members |-> members, rules |-> rules, current_time |-> now]
    /\ IF project_id = 0
       THEN /\ ret' = [kind |-> "error"]
            /\ UNCHANGED projects
       ELSE IF (members.given /\ MembersRaise(members.list)) \/ ~storeOk
               \/ project_id \notin 1..Len(projects)
       THEN \* except Exception (AttributeError, NotFound, store failure)
            /\ ret' = [kind |-> "error"]
            /\ UNCHANGED projects
       ELSE /\ projects' = [projects EXCEPT ![project_id] =
                    UpdatedProject(@, project_name, status, project_overview,
                                   members, rules, user_email, now)]
            /\ ret' = [kind |-> "project", projectId |-> project_id,
                       updated_fields |-> UpdatedFields(project_name, status,
                                              project_overview, members, rules)]
    /\ UNCHANGED <<mappings, sessions, execs, users, tasks, subStatus, calls, landings, parentOf, failNodes, adviceQueue, now, workers, executedBy>>

\* Two callers each make one firestore_update_project call. A call first
\* builds update_data (reading the clock), then its project_ref.update lands
\* in the store as one atomic document write, then it returns.

Callers == {"c1", "c2"}

IdleCall == [pc |-> "idle", project_id |-> 0, update_data |-> <<>>]

\* lines 1462-1500: validation and the construction of update_data
UpdateBuild(c, project_id, project_name, status, project_overview, members, rules, user_email) ==
    /\ calls[c].pc = "idle"
    /\ IF project_id = 0 \/ (members.given /\ MembersRaise(members.list))
       THEN /\ calls' = [calls EXCEPT ![c] = [pc |-> "done", project_id |-> project_id,
                                              update_data |-> <<>>]]
            /\ ret' = [kind |-> "error"]
       ELSE /\ calls' = [calls EXCEPT ![c] =
                    [pc |-> "built", project_id |-> project_id,
                     update_data |-> UpdateData(project_name, status, project_overview,
                                                members, rules, user_email, now)]]
            /\ ret' = ret
    /\ lastCall' = [op |-> "update_data", caller |-> c, project_id |-> project_id,
                    current_time |-> now]
    /\ UNCHANGED <<mappings, sessions, execs, users, tasks, subStatus, landings, parentOf, failNodes, adviceQueue, now,
                   projects, workers, executedBy>>

\* lines 1503-1520: project_ref.update(update_data) and the return
UpdateLand(c, storeOk) ==
    /\ calls[c].pc = "built"
    /\ IF ~storeOk \/ calls[c].project_id \notin 1..Len(projects)
       THEN /\ ret' = [kind |-> "error"]
            /\ UNCHANGED <<projects, landings>>
       ELSE /\ projects' = [projects EXCEPT ![calls[c].project_id] =
                                ApplyUpdate(@, calls[c].update_data)]
            /\ landings' = Append(landings, [caller |-> c,
                                             prior |-> projects[calls[c].project_id]])
            /\ ret' = [kind |-> "project", projectId |-> calls[c].project_id,
                       updated_fields |-> DOMAIN calls[c].update_data]
    /\ calls' = [calls EXCEPT ![c].pc = "done"]
    /\ lastCall' = [op |-> "project_ref.update", caller |-> c,
                    project_id |-> calls[c].project_id, current_time |-> now]
    /\ UNCHANGED <<mappings, sessions, execs, users, tasks, subStatus, parentOf, failNodes, adviceQueue, now, workers,
                   executedBy>>

---------------------------------------------------------------------------
(* User task scan                                                          *)
(* A task document is [projectId, assignee, status]; its id is its index   *)
(* in tasks. The assignee is a tagged value: a string, a list of strings   *)
(* ([t |-> "list", v |-> sequence of strings]), None, or Absent.           *)

StrList(l) == [t |-> "list", v |-> l]

\* task_doc.reference as the owner of a subTasks collection
TaskRef(t) == 0 - t

\* user_ref.path
Path(email) == <<"u", "s", "e", "r", "s", "/">> \o email

\* s in t, for strings
IsSubstring(s, t) == \E i \in 0..(Len(t) - Len(s)) : SubSeq(t, i + 1, i + Len(s)) = s

\* the member loop of _get_user_projects: a member dict whose userRef is a
\* reference with the email inside its path
IsProjectMember(email, members) ==
    \E i \in 1..Len(members) :
        /\ "userRef" \in DOMAIN members[i]
        /\ members[i]["userRef"].t = "ref"
        /\ IsSubstring(email.v, Path(members[i]["userRef"].v))

\* the ids of the projects the user takes part in, in stream order; a store
\* error yields []
_get_user_projects(email, listOk) ==
    IF ~listOk THEN <<>>
    ELSE SeqOfSet({p \in 1..Len(projects) : IsProjectMember(email, projects[p].members)})

\* task_dict.get("assignee", "")
AssigneeOf(doc) == IF doc.assignee = Absent THEN Str(<<>>) ELSE doc.assignee

IsAssigned_strOnly(assignee, email) == assignee.t = "str" /\ assignee.v = email.v

\* is_assigned
IsAssigned(assignee, email) ==
    IF assignee.t = "str" THEN assignee.v = email.v
    ELSE IF assignee.t = "list" THEN \E i \in 1..Len(assignee.v) : assignee.v[i] = email.v
    ELSE FALSE

SkipsCompleted_never(include_completed, status) == FALSE

\* not include_completed and task_dict.get("status") == "completed"
SkipsCompleted(include_completed, status) == ~include_completed /\ status = "completed"

UnknownProject == Str(<<"?">>)

\* project_name: "Unknown Project" unless the project document exists
ProjectNameOf(proj_id) ==
    IF proj_id \in 1..Len(projects) THEN projects[proj_id].projectName ELSE UnknownProject

\* task_dict.update({...})
TaskEntry(t, proj_id) ==
    [taskId |-> t, assignee |-> tasks[t].assignee, status |-> tasks[t].status,
     projectId |-> proj_id, projectName |-> ProjectNameOf(proj_id),
     isSubTask |-> FALSE, nestingLevel |-> 0]

\* subtask["projectId"] = proj_id; subtask["projectName"] = project_name
SubtaskEntry(subtask, proj_id) ==
    [f \in DOMAIN subtask \cup {"projectId", "projectName"} |->
        IF f = "projectId" THEN proj_id
        ELSE IF f = "projectName" THEN ProjectNameOf(proj_id)
        ELSE subtask[f]]

\* the body of the task loop for one streamed task document
ScanTask(t, proj_id, email, include_completed) ==
    IF ~IsAssigned(AssigneeOf(tasks[t]), email) THEN <<>>
    ELSE IF SkipsCompleted(include_completed, tasks[t].status) THEN <<>>
    ELSE LET subtasks == _get_subtasks_recursively(TaskRef(t), DefaultLevel, DefaultMaxLevel)
         IN <<TaskEntry(t, proj_id)>>
            \o [i \in 1..Len(subtasks) |-> SubtaskEntry(subtasks[i], proj_id)]

RECURSIVE ScanTasks(_, _, _, _)
ScanTasks(docs, proj_id, email, include_completed) ==
    IF docs = <<>> THEN <<>>
    ELSE ScanTask(Head(docs), proj_id, email, include_completed)
         \o ScanTasks(Tail(docs), proj_id, email, include_completed)

\* tasks_ref.stream(): the task documents of a project, in document-id order
StreamTasks(proj_id) == SeqOfSet({t \in 1..Len(tasks) : tasks[t].projectId = proj_id})

\* a store error of a call: none, one while listing the projects, or one in
\* the scan of a project after `after` of its task documents were streamed
NoFault == [kind |-> "none", project |-> 0, after |-> 0]
ListFault == [kind |-> "list", project |-> 0, after |-> 0]
ProjectFault(p, k) == [kind |-> "project", project |-> p, after |-> k]

\* the task documents the stream of a project delivers before it raises
Delivered(proj_id, fault) ==
    IF fault.kind = "project" /\ fault.project = proj_id
    THEN SubSeq(StreamTasks(proj_id), 1,
                IF fault.after < Len(StreamTasks(proj_id)) THEN fault.after
                ELSE Len(StreamTasks(proj_id)))
    ELSE StreamTasks(proj_id)

\* the project loop: what was appended before an error stays in all_tasks
RECURSIVE ScanProjects(_, _, _, _)
ScanProjects(project_ids, email, include_completed, fault) ==
    IF project_ids = <<>> THEN <<>>
    ELSE ScanTasks(Delivered(Head(project_ids), fault), Head(project_ids), email,
                   include_completed)
         \o ScanProjects(Tail(project_ids), email, include_completed, fault)

\* project_id: 0 stands for None
_get_user_tasks(email, project_id, include_completed, fault) ==
    ScanProjects(IF project_id # 0 THEN <<project_id>>
                 ELSE _get_user_projects(email, fault.kind # "list"),
                 email, include_completed, fault)

firestore_get_user_tasks(email, project_id, include_completed, fault) ==
    /\ lastCall' = [op |-> "firestore_get_user_tasks", email |-> email,
                    project_id |-> project_id, include_completed |-> include_completed,
                    fault |-> fault]
    /\ ret' = LET result == _get_user_tasks(email, project_id, include_completed, fault)
              IN IF result = <<>> THEN [kind |-> "no_tasks", tasks |-> <<>>]
                 ELSE [kind |-> "tasks", tasks |-> result]
    /\ UNCHANGED <<mappings, sessions, execs, users, tasks, subStatus, calls, landings, parentOf, failNodes, adviceQueue, now,
                   projects, workers, executedBy>>

---------------------------------------------------------------------------
(* Reading all projects                                                    *)
(* The module defines firestore_get_all_projects twice; the later          *)
(* definition replaces the earlier one, so it is the function an importer  *)
(* gets.                                                                   *)

\* data.isoformat() of a stored timestamp (read back in UTC)
isoformat(t) == [fmt |-> "iso", wall |-> t, offset |-> 0]

\* _clean_firestore_data on a value of a member dict: a DocumentReference
\* becomes its path string, any other value is kept
CleanValue(x) == IF x.t = "ref" THEN Str(Path(x.v)) ELSE x

\* _clean_firestore_data on a dict: the keys whose value is None are dropped
CleanMember(d) == [k \in {key \in DOMAIN d : d[key] # None} |-> CleanValue(d[k])]

\* the fields of a project document that hold a string, None, or nothing
OptionalFields == {"projectName", "projectOverview", "status", "createdBy", "updatedBy"}

\* _clean_firestore_data(project_data)
CleanProject(doc) ==
    [f \in {field \in DOMAIN doc :
                field \in OptionalFields => doc[field] \notin {Absent, None}} |->
        IF f \in {"createdAt", "updatedAt"} THEN isoformat(doc[f])
        ELSE IF f = "members" THEN [i \in 1..Len(doc[f]) |-> CleanMember(doc[f][i])]
        ELSE doc[f]]

firestore_get_all_projects(storeOk) ==
    /\ lastCall' = [op |-> "firestore_get_all_projects", storeOk |-> storeOk]
    /\ ret' = IF ~storeOk THEN [kind |-> "error", projects |-> <<>>, count |-> 0]
              ELSE [kind |-> "projects",
                    projects |-> [p \in 1..Len(projects) |-> CleanProject(projects[p])],
                    count |-> Len(projects)]
    /\ UNCHANGED <<mappings, sessions, execs, users, tasks, subStatus, calls, landings, parentOf, failNodes, adviceQueue, now,
                   projects, workers, executedBy>>

---------------------------------------------------------------------------
(* Team contexts                                                           *)
(* users[email] holds the user document, the profile document under it    *)
(* (each a sequence of zero or one dicts) and the userContexts and         *)
(* projectContexts sub-collections in document-id order.                   *)

\* a reference users/{email}/userProfiles/{id}
ProfileRef(email) == [t |-> "profile", v |-> email]

\* a reference projects/{id}
ProjectRef(p) == [t |-> "projectRef", v |-> <<p>>]

\* a DocumentReference: it has the attributes path and get
IsReference(x) == DOMAIN x = {"t", "v"} /\ x.t \in {"ref", "profile", "projectRef"}

\* ref.get(): the target document, a sequence of zero or one dicts
TargetOf(ref) ==
    IF ref.t = "ref" THEN users[ref.v].doc
    ELSE IF ref.t = "profile" THEN users[ref.v].profile
    ELSE IF ref.v[1] \in 1..Len(projects) THEN <<projects[ref.v[1]]>> ELSE <<>>

\* the id of the document a reference names
TargetId(ref) ==
    IF ref.t = "ref" THEN Str(ref.v)
    ELSE IF ref.t = "profile" THEN Str(<<"p", "1">>)
    ELSE ref.v[1]

\* d[key] = x on a dict
WithField(d, key, x) == [f \in DOMAIN d \cup {key} |-> IF f = key THEN x ELSE d[f]]

\* doc.to_dict() with the id field added
WithId(fields, id) == [t |-> "dict", fields |-> WithField(fields, "id", id)]

\* the member loop of the resolved project: a dict member whose userRef is a
\* reference gets the target's fields plus id, or None when the target is
\* absent; every other member is kept
ResolveMember_kept(member) == member

ResolveMember(member) ==
    IF ~IsReference(member) /\ "userRef" \in DOMAIN member /\ IsReference(member.userRef)
    THEN IF TargetOf(member.userRef) # <<>>
         THEN [member EXCEPT !.userRef =
                   WithId(TargetOf(member.userRef)[1], TargetId(member.userRef))]
         ELSE [member EXCEPT !.userRef = None]
    ELSE member

\* project_doc.to_dict() with id and with the members' userRef resolved
ResolvedProject(project_ref) ==
    LET data == TargetOf(project_ref)[1]
    IN WithId([data EXCEPT !.members =
                   [i \in 1..Len(data.members) |-> ResolveMember(data.members[i])]],
              TargetId(project_ref))

\* the projectInfo reference of a context is replaced by the project, or by
\* None when the project is absent
ResolveProjectInfo(context) ==
    IF "projectInfo" \in DOMAIN context /\ IsReference(context.projectInfo)
    THEN IF TargetOf(context.projectInfo) # <<>>
         THEN [context EXCEPT !.projectInfo = ResolvedProject(context.projectInfo)]
         ELSE [context EXCEPT !.projectInfo = None]
    ELSE context

\* order_by("createdAt") leaves out the documents that have no createdAt
HasCreatedAt(doc) == "createdAt" \in DOMAIN doc
Ordered(docs) == SelectSeq(docs, HasCreatedAt)

\* order_by("createdAt", DESCENDING).limit(1) on a non-empty result
Latest(docs) ==
    docs[CHOOSE i \in 1..Len(docs) : \A j \in 1..Len(docs) : docs[j].createdAt <= docs[i].createdAt]

\* the faults of one call: none, the caller's own context read raises, the
\* project document read raises, the sub-collection read of one member raises
NoTeamFault == [kind |-> "none", index |-> 0]
IndividualFault == [kind |-> "individual", index |-> 0]
ProjectGetFault == [kind |-> "project", index |-> 0]
MemberFault(i) == [kind |-> "member", index |-> i]

\* the three results of a single-user read
EmptyContext == [kind |-> "empty", context |-> <<>>]
ErrorContext == [kind |-> "error", context |-> <<>>]
Context(c) == [kind |-> "context", context |-> <<c>>]

_get_user_context(email, fault) ==
    IF fault.kind = "individual" THEN ErrorContext
    ELSE IF Ordered(users[email].userContexts) = <<>> THEN EmptyContext
    ELSE Context(Latest(Ordered(users[email].userContexts)))

_get_project_context(email, fault) ==
    IF fault.kind = "individual" THEN ErrorContext
    ELSE IF users[email].projectContexts = <<>> THEN EmptyContext
    ELSE Context(ResolveProjectInfo(users[email].projectContexts[1]))

\* user_ref of a stored member: the member itself when it is a reference, its
\* userRef when it is a dict that has one
HasUserRef(member) == IsReference(member) \/ "userRef" \in DOMAIN member
UserRefOf(member) == IF IsReference(member) THEN member ELSE member.userRef

\* user_ref.parent.parent is a user document only for a profile reference: the
\* parent of the users collection is None and a str has no parent, so
\* user_doc_ref.collection raises AttributeError
ParentParentRaises(user_ref) == user_ref.t # "profile"

\* the sub-collection read of member i is reached
ReadsMember(member) == HasUserRef(member) /\ ~ParentParentRaises(UserRefOf(member))

\* the per-member except: only the member at the faulty index is dropped
MemberFails_all(i, fault) == fault.kind = "member"

MemberFails(i, fault) == fault = MemberFault(i)

\* the body of the member loop: the contexts one member appends
MemberContexts(member, i, collection_name, order_by_created_at, fault) ==
    IF ~ReadsMember(member) \/ MemberFails(i, fault) THEN <<>>
    ELSE LET email == UserRefOf(member).v
             stored == users[email][collection_name]
             docs == IF order_by_created_at THEN Ordered(stored) ELSE stored
         IN IF docs = <<>> THEN <<>>
            ELSE LET doc == IF order_by_created_at THEN Latest(docs) ELSE docs[1]
                     context == WithField(doc, "userEmail", Str(email))
                 IN <<IF collection_name = "projectContexts"
                      THEN ResolveProjectInfo(context) ELSE context>>

RECURSIVE TeamLoop(_, _, _, _, _)
TeamLoop(members, i, collection_name, order_by_created_at, fault) ==
    IF i > Len(members) THEN <<>>
    ELSE MemberContexts(members[i], i, collection_name, order_by_created_at, fault)
         \o TeamLoop(members, i + 1, collection_name, order_by_created_at, fault)

_get_team_contexts(project_id, collection_name, order_by_created_at, fault) ==
    IF fault.kind = "project" \/ project_id \notin 1..Len(projects) THEN <<>>
    ELSE TeamLoop(projects[project_id].members, 1, collection_name, order_by_created_at, fault)

_get_team_project_contexts(project_id, fault) ==
    _get_team_contexts(project_id, "projectContexts", FALSE, fault)

_get_team_user_contexts(project_id, fault) ==
    _get_team_contexts(project_id, "userContexts", TRUE, fault)

\* the store reads of one team fetch, in order: the project document, then the
\* sub-collection of every member whose user document could be derived
TeamReads(project_id, fault) ==
    <<"project">> \o
    (IF fault.kind = "project" \/ project_id \notin 1..Len(projects) THEN <<>>
     ELSE LET members == projects[project_id].members
          IN [k \in 1..Cardinality({i \in 1..Len(members) : ReadsMember(members[i])}) |->
                  "contexts"])

\* `if not individual_context or individual_context == {}`
ShortCircuits(individual) == individual.kind = "empty"

TeamResult(individual, team, reads) ==
    IF ShortCircuits(individual)
    THEN [kind |-> "None", individual_context |-> individual, team_contexts |-> <<>>,
          reads |-> <<"individual">>]
    ELSE [kind |-> "contexts", individual_context |-> individual, team_contexts |-> team,
          reads |-> <<"individual">> \o reads]

TeamFrame ==
    UNCHANGED <<mappings, sessions, execs, users, tasks, subStatus, calls, landings, parentOf, failNodes, adviceQueue, now,
                projects, workers, executedBy>>

firestore_get_team_user_contexts(email, project_id, fault) ==
    /\ lastCall' = [op |-> "firestore_get_team_user_contexts", email |-> email,
                    project_id |-> project_id, fault |-> fault]
    /\ ret' = TeamResult(_get_user_context(email, fault),
                         _get_team_user_contexts(project_id, fault),
                         TeamReads(project_id, fault))
    /\ TeamFrame

firestore_get_team_project_contexts(email, project_id, fault) ==
    /\ lastCall' = [op |-> "firestore_get_team_project_contexts", email |-> email,
                    project_id |-> project_id, fault |-> fault]
    /\ ret' = TeamResult(_get_project_context(email, fault),
                         _get_team_project_contexts(project_id, fault),
                         TeamReads(project_id, fault))
    /\ TeamFrame

\* a direct call of _get_team_contexts
GetTeamContexts(project_id, collection_name, order_by_created_at, fault) ==
    /\ lastCall' = [op |-> "_get_team_contexts", project_id |-> project_id,
                    collection_name |-> collection_name,
                    order_by_created_at |-> order_by_created_at, fault |-> fault]
    /\ ret' = [kind |-> "list",
               team_contexts |-> _get_team_contexts(project_id, collection_name,
                                                    order_by_created_at, fault)]
    /\ TeamFrame

\* firestore_get_project_context(email): the caller's project context alone
GetProjectContext(email, fault) ==
    /\ lastCall' = [op |-> "firestore_get_project_context", email |-> email, fault |-> fault]
    /\ ret' = _get_project_context(email, fault)
    /\ TeamFrame

---------------------------------------------------------------------------
(* The coordinator's executor                                              *)
(* ProjectLibrarianExecutor.execute is a coroutine: between two awaits it  *)
(* runs alone, and at each await another execute call may run. One action  *)
(* is the code from one await to the next.                                 *)

Execs == {"e1", "e2"}
Contexts == {"ctxA", "ctxB"}

NoSession == 0          \* session_id = None
IdleExec == [pc |-> "idle", context_id |-> "ctxA", session_id |-> NoSession,
             task |-> "none", reported |-> <<>>]

\* the three outcomes execute reports through the updater
Outcomes == {"input-required", "completed", "failed"}

\* the loop over event.content.parts: a get_user_choice call asks the user, a
\* text part of a final response completes, any other part is passed over
RECURSIVE PartsOutcome(_, _)
PartsOutcome(parts, is_final_response) ==
    IF parts = <<>> THEN "none"
    ELSE IF Head(parts) = "get_user_choice" THEN "input-required"
    ELSE IF Head(parts) = "text" /\ is_final_response THEN "completed"
    ELSE PartsOutcome(Tail(parts), is_final_response)

\* the stream ends: the except branch reports a raise, and a stream that
\* just ends reports nothing
Exhausted(raises) == IF raises THEN "failed" ELSE "none"

\* `async for event in self.runner.run_async(...)`: the first event that
\* reports ends the call; a stream that raises is caught by the except branch
RECURSIVE StreamOutcome(_, _)
StreamOutcome(events, raises) ==
    IF events = <<>> THEN Exhausted(raises)
    ELSE IF PartsOutcome(Head(events).parts, Head(events).final) # "none"
         THEN PartsOutcome(Head(events).parts, Head(events).final)
         ELSE StreamOutcome(Tail(events), raises)

\* the task after an outcome was reported, or left as it was
Report(exec, outcome) ==
    IF outcome = "none" THEN [exec EXCEPT !.pc = "done"]
    ELSE [exec EXCEPT !.pc = "done", !.task = outcome,
                      !.reported = Append(@, outcome)]

ExecutorFrame ==
    UNCHANGED <<users, tasks, subStatus, calls, landings, parentOf, failNodes, adviceQueue, now,
                projects, workers, executedBy, ret>>

\* updater.submit() and updater.start_work()
execute_start_work(e, context_id) ==
    /\ execs[e].pc \in {"idle", "done"}
    /\ execs' = [execs EXCEPT ![e] = [pc |-> "get", context_id |-> context_id,
                                      session_id |-> NoSession, task |-> "working",
                                      reported |-> <<>>]]
    /\ lastCall' = [op |-> "start_work", exec |-> e, context_id |-> context_id]
    /\ UNCHANGED <<mappings, sessions>>
    /\ ExecutorFrame

\* doc = await mapping_ref.get(); session_id = doc.to_dict().get("session_id")
execute_get_mapping(e, storeOk) ==
    /\ execs[e].pc = "get"
    /\ execs' = [execs EXCEPT ![e] =
                    IF ~storeOk THEN Report(@, "failed")
                    ELSE [@ EXCEPT !.session_id = mappings[execs[e].context_id],
                                   !.pc = IF mappings[execs[e].context_id] = NoSession
                                          THEN "create" ELSE "run"]]
    /\ lastCall' = [op |-> "mapping_ref.get", exec |-> e, storeOk |-> storeOk]
    /\ UNCHANGED <<mappings, sessions>>
    /\ ExecutorFrame

\* session = await self.runner.session_service.create_session(...)
execute_create_session(e, storeOk) ==
    /\ execs[e].pc = "create"
    /\ IF storeOk
       THEN /\ sessions' = Append(sessions, [context_id |-> execs[e].context_id])
            /\ execs' = [execs EXCEPT ![e].session_id = Len(sessions) + 1, ![e].pc = "set"]
       ELSE /\ execs' = [execs EXCEPT ![e] = Report(@, "failed")]
            /\ UNCHANGED sessions
    /\ lastCall' = [op |-> "create_session", exec |-> e, storeOk |-> storeOk]
    /\ UNCHANGED mappings
    /\ ExecutorFrame

\* await mapping_ref.set({"session_id": session_id, "user_id": user_id})
execute_set_mapping(e, storeOk) ==
    /\ execs[e].pc = "set"
    /\ IF storeOk
       THEN /\ mappings' = [mappings EXCEPT ![execs[e].context_id] = execs[e].session_id]
            /\ execs' = [execs EXCEPT ![e].pc = "run"]
       ELSE /\ execs' = [execs EXCEPT ![e] = Report(@, "failed")]
            /\ UNCHANGED mappings
    /\ lastCall' = [op |-> "mapping_ref.set", exec |-> e, storeOk |-> storeOk]
    /\ UNCHANGED sessions
    /\ ExecutorFrame

\* the loop over the agent's event stream, to the return of execute
execute_run_async(e, events, raises) ==
    /\ execs[e].pc = "run"
    /\ execs' = [execs EXCEPT ![e] = Report(@, StreamOutcome(events, raises))]
    /\ lastCall' = [op |-> "run_async", exec |-> e, session_id |-> execs[e].session_id,
                    events |-> events, raises |-> raises]
    /\ UNCHANGED <<mappings, sessions>>
    /\ ExecutorFrame

\* no execute call was made and no mapping is stored
InitExecutor ==
    /\ mappings = [c \in Contexts |-> NoSession]
    /\ sessions = <<>>
    /\ execs = [e \in Execs |-> IdleExec]

---------------------------------------------------------------------------
(* Specifications                                                          *)

\* no user has a document, a profile or a context
NoUser == [doc |-> <<>>, profile |-> <<>>, userContexts |-> <<>>, projectContexts |-> <<>>]
NoUsers == [e \in {<<"a", "@", "x">>, <<"b", "@", "x">>} |-> NoUser]

NoCall == [op |-> "none"]
NoRet == [kind |-> "none", subTasks |-> <<>>]

Trees == {f \in [Nodes -> 0..MaxNodes] : \A n \in Nodes : f[n] < n}

InitStore ==
    /\ adviceQueue = <<>>
    /\ now = AtJst(1, 8, 40)
    /\ projects = <<>>
    /\ workers = [w \in Workers |-> IdleWorker]
    /\ executedBy = [id \in 1..MaxAdvice |-> {}]
    /\ users = NoUsers
    /\ InitExecutor
    /\ tasks = <<>>
    /\ subStatus = [n \in Nodes |-> "open"]
    /\ calls = [c \in Callers |-> IdleCall]
    /\ landings = <<>>
    /\ lastCall = NoCall
    /\ ret = NoRet

\* the recursive fetcher over every subtask tree; the subTasks stream of one
\* document may raise
InitTree ==
    /\ parentOf \in Trees
    /\ failNodes \in {{}, {1}, {2}}
    /\ InitStore

NextTree ==
    \/ \E ref \in 0..MaxNodes, level \in 0..MaxLevelArg, max_level \in 0..MaxLevelArg :
           FetchSubtree(ref, level, max_level)
    \/ \E task_id \in {TaskDoc, MissingDoc}, storeOk \in BOOLEAN :
           GetSpecificTask(task_id, storeOk)
    \/ \E sub \in Nodes \cup {MissingDoc}, storeOk \in BOOLEAN :
           GetSpecificSubtask(TaskDoc, sub, storeOk)

SpecTree == InitTree /\ [][NextTree]_vars

Init ==
    /\ parentOf = [n \in Nodes |-> n - 1]
    /\ failNodes = {}
    /\ InitStore

UserA == Str(<<"a", "@", "x">>)
UserB == Str(<<"b", "@", "x">>)
Reason == Str(<<"r">>)
AdviceType == Str(<<"t", "a", "s", "k">>)
Done == Str(<<"o", "k">>)

SuggestedTimes ==
    {Iso(1, 11, 40, JstOffsetMin),   \* 11:40+09:00
     Iso(1, 3, 0, 0),                \* 03:00Z, 12:00 in Tokyo
     Iso(1, 17, 50, JstOffsetMin),   \* 17:50+09:00
     Iso(1, 10, 0, 0),               \* 10:00Z, 19:00 in Tokyo
     Iso(2, 0, 30, 0),               \* 00:30Z, 09:30 in Tokyo
     Malformed}

ClockInstants ==
    {AtJst(1, 8, 40), AtJst(1, 12, 0), AtJst(1, 17, 40), AtJst(1, 23, 45),
     AtJst(2, 12, 0)}

\* advice creation alone: every priority, every suggested time, a moving clock
NextCreate ==
    \/ /\ Len(adviceQueue) < MaxCreated
       /\ \E priority \in 0..6, suggested_time \in SuggestedTimes, storeOk \in BOOLEAN :
              firestore_create_advice_queue(UserA, None, None, AdviceType, priority,
                                            Reason, suggested_time, storeOk)
    \/ \E t \in ClockInstants : Tick(t)

SpecCreate == Init /\ [][NextCreate]_vars

Statuses == {"pending", "processing", "completed", "failed"}

\* the life of the items: creation and every status update
NextLifecycle ==
    \/ /\ Len(adviceQueue) < MaxAdvice
       /\ firestore_create_advice_queue(UserA, None, None, AdviceType, 5, Reason,
                                        Iso(1, 11, 40, JstOffsetMin), TRUE)
    \/ \E queue_id \in 1..(MaxAdvice + 1), status \in Statuses, result \in {None, Done},
          storeOk \in BOOLEAN :
           firestore_update_advice_queue_status(queue_id, status, result, storeOk)

SpecLifecycle == Init /\ [][NextLifecycle]_vars

\* status updates with and without a result while the clock moves
NextStatus ==
    \/ /\ Len(adviceQueue) < MaxAdvice
       /\ firestore_create_advice_queue(UserA, None, None, AdviceType, 5, Reason,
                                        Iso(1, 11, 40, JstOffsetMin), TRUE)
    \/ \E queue_id \in 1..MaxAdvice, status \in {"processing", "completed"},
          result \in {None, Done} :
           firestore_update_advice_queue_status(queue_id, status, result, TRUE)
    \/ Tick(AtJst(1, 12, 0))

SpecStatus == Init /\ [][NextStatus]_vars

\* listing: items of two users, created at different instants, in every status
NextList ==
    \/ /\ Len(adviceQueue) < MaxAdvice
       /\ \E user_email \in {UserA, UserB} :
              firestore_create_advice_queue(user_email, None, None, AdviceType, 5,
                                            Reason, Iso(1, 11, 40, JstOffsetMin), TRUE)
    \/ \E user_email \in {None, Str(<<>>), UserA, UserB}, hours \in {0, 1, DefaultHours},
          storeOk \in BOOLEAN :
           firestore_get_pending_advice_queue(user_email, hours, storeOk)
    \/ \E queue_id \in 1..MaxAdvice, status \in {"processing", "completed"} :
           firestore_update_advice_queue_status(queue_id, status, None, TRUE)
    \/ \E t \in {AtJst(1, 12, 0), AtJst(2, 12, 0)} : Tick(t)

SpecList == Init /\ [][NextList]_vars

\* two workers polling a queue that advice is added to
NextWorkers ==
    \/ /\ Len(adviceQueue) < MaxAdvice
       /\ firestore_create_advice_queue(UserA, None, None, AdviceType, 5, Reason,
                                        Iso(1, 11, 40, JstOffsetMin), TRUE)
    \/ \E w \in Workers : WorkerRead(w)
    \/ \E w \in Workers : WorkerSkip(w)
    \/ \E w \in Workers, id \in 1..MaxAdvice : WorkerClaim(w, id)
    \/ \E w \in Workers : WorkerExecute(w)
    \/ \E w \in Workers, status \in {"completed", "failed"} : WorkerRecord(w, status)

SpecWorkers == Init /\ [][NextWorkers]_vars

Alice == DictMember([email |-> UserA, role |-> Str(<<"E">>), isOwner |-> Bool(FALSE)])
Bob == DictMember([email |-> Str(<<"b", "o", "b">>), role |-> Str(<<"E">>)])

MemberInputs ==
    {Alice, Bob,
     DictMember([userRef |-> UserB, email |-> UserB, isOwner |-> Bool(TRUE)]),
     DictMember([userRef |-> Str(<<"b", "o", "b">>), email |-> UserA]),
     DictMember([role |-> Str(<<>>), isOwner |-> Bool(FALSE)]),
     DictMember(<<>>),
     StrMember(<<"a", "@", "x">>),
     StrMember(<<>>)}

MemberLists ==
    {NoList, List(<<>>), List(<<Alice, Bob>>)} \cup {List(<<m>>) : m \in MemberInputs}

\* project creation and update with every shape of member
NextMembers ==
    \/ /\ Len(projects) < MaxProjects
       /\ \E project_name \in {Str(<<>>), Str(<<"P">>)}, members \in MemberLists,
             storeOk \in BOOLEAN :
              firestore_create_project(UserA, project_name, None, None, members, NoList,
                                       storeOk)
    \/ \E project_id \in 0..(MaxProjects + 1), members \in MemberLists,
          storeOk \in BOOLEAN :
           firestore_update_project(project_id, None, None, None, members, NoList,
                                    UserB, storeOk)

SpecMembers == Init /\ [][NextMembers]_vars

CanonicalPriorities == {"mandatory", "high", "normal", "low"}

RuleLists ==
    {NoList,
     List(<<[content |-> "c1", priority |-> "high"]>>),
     List(<<[content |-> "c1", priority |-> "critical"],
            [content |-> "c2", priority |-> "low"]>>)}

ProjectNames == {None, Str(<<>>), Str(<<"P">>)}

\* project creation and update with every name and rule list
NextRules ==
    \/ /\ Len(projects) < MaxProjects
       /\ \E project_name \in ProjectNames, rules \in RuleLists, storeOk \in BOOLEAN :
              firestore_create_project(UserA, project_name, None, None, NoList, rules,
                                       storeOk)
    \/ \E project_id \in 0..(MaxProjects + 1), rules \in RuleLists, storeOk \in BOOLEAN :
           firestore_update_project(project_id, None, None, None, NoList, rules,
                                    UserB, storeOk)

SpecRules == Init /\ [][NextRules]_vars

Closed == Str(<<"c", "l", "o", "s", "e", "d">>)
OneRule == List(<<[content |-> "c1", priority |-> "high"]>>)

\* [project_name, status, project_overview, members, rules] of an update call
Patches ==
    {<<None, None, None, NoList, NoList>>,
     <<Str(<<>>), Closed, None, NoList, NoList>>,
     <<None, None, Str(<<"o">>), List(<<Alice>>), OneRule>>}

\* partial updates of stored projects while the clock moves
NextUpdate ==
    \/ /\ Len(projects) < MaxProjects
       /\ firestore_create_project(UserA, Str(<<"P">>), None, None, NoList, NoList, TRUE)
    \/ \E project_id \in 0..(MaxProjects + 1), patch \in Patches, storeOk \in BOOLEAN :
           firestore_update_project(project_id, patch[1], patch[2], patch[3], patch[4],
                                    patch[5], UserB, storeOk)
    \/ Tick(AtJst(1, 12, 0))

SpecUpdate == Init /\ [][NextUpdate]_vars

\* the two creating and the two updating operations, called with stored and
\* with unknown ids
NextIds ==
    \/ /\ Len(adviceQueue) < MaxAdvice
       /\ firestore_create_advice_queue(UserA, None, None, AdviceType, 5, Reason,
                                        Iso(1, 11, 40, JstOffsetMin), TRUE)
    \/ \E queue_id \in 1..(MaxAdvice + 1), storeOk \in BOOLEAN :
           firestore_update_advice_queue_status(queue_id, "completed", Done, storeOk)
    \/ /\ Len(projects) < MaxProjects
       /\ firestore_create_project(UserA, Str(<<"P">>), None, None, NoList, NoList, TRUE)
    \/ \E project_id \in 0..(MaxProjects + 1), storeOk \in BOOLEAN :
           firestore_update_project(project_id, None, Closed, None, NoList, NoList, UserB,
                                    storeOk)

SpecIds == Init /\ [][NextIds]_vars

CallerEmail(c) == IF c = "c1" THEN UserA ELSE UserB

ConcurrentPatches ==
    {<<None, None, None, NoList, NoList>>,
     <<Str(<<"Q">>), None, Str(<<"o">>), NoList, NoList>>,
     <<Str(<<"R">>), Closed, None, NoList, NoList>>}

\* two update calls in flight at once, their steps interleaved in every order
NextConcurrent ==
    \/ /\ Len(projects) < MaxCreated
       /\ firestore_create_project(UserA, Str(<<"P">>), None, None, NoList, NoList, TRUE)
    \/ \E c \in Callers, project_id \in 1..MaxCreated, patch \in ConcurrentPatches :
           UpdateBuild(c, project_id, patch[1], patch[2], patch[3], patch[4], patch[5],
                       CallerEmail(c))
    \/ \E c \in Callers, storeOk \in BOOLEAN : UpdateLand(c, storeOk)
    \/ \E t \in {AtJst(1, 12, 0), AtJst(1, 12, 1)} : Tick(t)

SpecConcurrent == Init /\ [][NextConcurrent]_vars

TaskDocs ==
    {[projectId |-> p, assignee |-> a.assignee, status |-> a.status] :
        p \in 1..2,
        a \in {[assignee |-> UserA, status |-> "open"],
               [assignee |-> UserA, status |-> "completed"],
               [assignee |-> StrList(<<UserB.v, UserA.v>>), status |-> "open"],
               [assignee |-> UserB, status |-> "open"],
               [assignee |-> None, status |-> "open"]}}

\* a@x is a member of every project; the projects after the first have b@x too
MembersOf(p) ==
    IF p = 1 THEN <<DictMember([email |-> UserA])>>
    ELSE <<DictMember([email |-> UserB]), DictMember([email |-> UserA])>>

StoredProject(p) ==
    ProjectData(UserA, Str(<<"P">>), None, None, MembersOf(p), <<>>, AtJst(1, 8, 40), p)

\* the user task scan over every store of MaxTasks tasks in two projects; the
\* subtasks are one chain under task 1, completed and open in turn
InitTasks ==
    /\ users = NoUsers
    /\ InitExecutor
    /\ tasks \in [1..MaxTasks -> TaskDocs]
    /\ parentOf = [n \in Nodes |-> IF n = 1 THEN TaskRef(1) ELSE n - 1]
    /\ subStatus = [n \in Nodes |-> IF n % 2 = 1 THEN "completed" ELSE "open"]
    /\ failNodes \in {{}, {2}}
    /\ projects = [p \in 1..MaxProjects |-> StoredProject(p)]
    /\ adviceQueue = <<>>
    /\ now = AtJst(1, 8, 40)
    /\ workers = [w \in Workers |-> IdleWorker]
    /\ executedBy = [id \in 1..MaxAdvice |-> {}]
    /\ calls = [c \in Callers |-> IdleCall]
    /\ landings = <<>>
    /\ lastCall = NoCall
    /\ ret = NoRet

Faults == {NoFault, ListFault} \cup {ProjectFault(p, k) : p \in 1..2, k \in 0..1}

NextTasks ==
    \E project_id \in 0..2, include_completed \in BOOLEAN, fault \in Faults :
        firestore_get_user_tasks(UserA, project_id, include_completed, fault)

SpecTasks == InitTasks /\ [][NextTasks]_vars

Owner ==
    DictMember([userRef |-> UserB, role |-> Str(<<"O">>), isOwner |-> Bool(TRUE)])

\* projects created with members, then read back
NextAllProjects ==
    \/ /\ Len(projects) < MaxProjects
       /\ \E members \in {NoList, List(<<Alice>>), List(<<Owner, Bob>>)},
             storeOk \in BOOLEAN :
              firestore_create_project(UserA, Str(<<"P">>), None, None, members, NoList,
                                       storeOk)
    \/ \E project_id \in 1..MaxProjects, patch \in Patches :
           firestore_update_project(project_id, patch[1], patch[2], patch[3], patch[4],
                                    patch[5], UserB, TRUE)
    \/ \E storeOk \in BOOLEAN : firestore_get_all_projects(storeOk)

SpecAllProjects == Init /\ [][NextAllProjects]_vars

\* the stored shapes of one team member: the dict createProject and
\* updateProject write, a dict whose userRef is a profile reference, a bare
\* profile reference, and a dict without userRef
WrittenMember(u) == NormalizeMember([email |-> u, role |-> Str(<<"E">>)])
ProfileMember(u) == [userRef |-> ProfileRef(u.v), role |-> Str(<<"E">>)]
TeamShapes(u) == {WrittenMember(u), ProfileMember(u), ProfileRef(u.v), [role |-> Str(<<"E">>)]}

OldContext == [createdAt |-> AtJst(1, 8, 10), summary |-> Str(<<"o">>)]
NewContext == [createdAt |-> AtJst(1, 8, 20), summary |-> Str(<<"n">>)]
UserDoc == <<[displayName |-> Str(<<"U">>)]>>
ProfileDoc == <<[title |-> Str(<<"T">>)]>>
InfoContext(x) == [projectInfo |-> x, goal |-> Str(<<"g">>)]

\* what one user holds: documents present or not, contexts in either id
\* order, a projectInfo naming a stored project, a missing one, or a plain id
UserConfigs ==
    {[doc |-> UserDoc, profile |-> ProfileDoc, userContexts |-> <<OldContext, NewContext>>,
      projectContexts |-> <<InfoContext(ProjectRef(1))>>],
     [doc |-> UserDoc, profile |-> <<>>, userContexts |-> <<NewContext, OldContext>>,
      projectContexts |-> <<InfoContext(ProjectRef(2))>>],
     [doc |-> <<>>, profile |-> ProfileDoc, userContexts |-> <<NewContext>>,
      projectContexts |-> <<InfoContext(Str(<<"1">>))>>],
     [doc |-> <<>>, profile |-> <<>>, userContexts |-> <<>>,
      projectContexts |-> <<InfoContext(ProjectRef(1))>>],
     NoUser}

TeamProject(members) ==
    [ProjectData(UserA, Str(<<"P">>), None, None, <<>>, <<>>, AtJst(1, 8, 40), 1)
        EXCEPT !.members = members]

\* one stored project of two members, a@x then b@x, in every shape
InitTeam ==
    /\ users \in [{UserA.v, UserB.v} -> UserConfigs]
    /\ InitExecutor
    /\ \E m1 \in TeamShapes(UserA), m2 \in TeamShapes(UserB) :
           projects = <<TeamProject(<<m1, m2>>)>>
    /\ adviceQueue = <<>>
    /\ now = AtJst(1, 8, 40)
    /\ workers = [w \in Workers |-> IdleWorker]
    /\ executedBy = [id \in 1..MaxAdvice |-> {}]
    /\ tasks = <<>>
    /\ parentOf = [n \in Nodes |-> 0]
    /\ failNodes = {}
    /\ subStatus = [n \in Nodes |-> "open"]
    /\ calls = [c \in Callers |-> IdleCall]
    /\ landings = <<>>
    /\ lastCall = NoCall
    /\ ret = NoRet

TeamFaults == {NoTeamFault, ProjectGetFault, MemberFault(1), MemberFault(2)}

NextTeam ==
    \/ \E email \in {UserA.v, UserB.v}, project_id \in 1..2,
          fault \in TeamFaults \cup {IndividualFault} :
           firestore_get_team_user_contexts(email, project_id, fault)
    \/ \E email \in {UserA.v, UserB.v}, project_id \in 1..2,
          fault \in TeamFaults \cup {IndividualFault} :
           firestore_get_team_project_contexts(email, project_id, fault)
    \/ \E project_id \in 1..2, collection_name \in {"userContexts", "projectContexts"},
          order_by_created_at \in BOOLEAN, fault \in TeamFaults :
           GetTeamContexts(project_id, collection_name, order_by_created_at, fault)
    \/ \E email \in {UserA.v, UserB.v}, fault \in {NoTeamFault, IndividualFault} :
           GetProjectContext(email, fault)

SpecTeam == InitTeam /\ [][NextTeam]_vars

MaxSessions == 3

\* the agent's event streams: empty, a final text, a question to the user,
\* a tool call then a final text, a text that is not final, a final event
\* without text, and a final text after a question
Text(final) == [parts |-> <<"text">>, final |-> final]
EventStreams ==
    {<<>>,
     <<Text(TRUE)>>,
     <<[parts |-> <<"text", "get_user_choice">>, final |-> FALSE]>>,
     <<[parts |-> <<"function_call">>, final |-> FALSE], Text(TRUE)>>,
     <<Text(FALSE)>>,
     <<[parts |-> <<>>, final |-> TRUE]>>,
     <<[parts |-> <<"get_user_choice">>, final |-> FALSE], Text(TRUE)>>}

\* execute calls in any interleaving; every await may raise
NextExecute ==
    \/ \E e \in Execs, context_id \in Contexts : execute_start_work(e, context_id)
    \/ \E e \in Execs, storeOk \in BOOLEAN : execute_get_mapping(e, storeOk)
    \/ /\ Len(sessions) < MaxSessions
       /\ \E e \in Execs, storeOk \in BOOLEAN : execute_create_session(e, storeOk)
    \/ \E e \in Execs, storeOk \in BOOLEAN : execute_set_mapping(e, storeOk)
    \/ \E e \in Execs, events \in EventStreams, raises \in BOOLEAN :
           execute_run_async(e, events, raises)

SpecExecute == Init /\ [][NextExecute]_vars

\* execute calls in any interleaving on a store and a session service that
\* never fail
NextSessions ==
    \/ \E e \in Execs, context_id \in Contexts : execute_start_work(e, context_id)
    \/ \E e \in Execs : execute_get_mapping(e, TRUE)
    \/ /\ Len(sessions) < MaxSessions
       /\ \E e \in Execs : execute_create_session(e, TRUE)
    \/ \E e \in Execs : execute_set_mapping(e, TRUE)
    \/ \E e \in Execs : execute_run_async(e, <<Text(TRUE)>>, FALSE)

SpecSessions == Init /\ [][NextSessions]_vars

---------------------------------------------------------------------------
(* C1: the fetcher never returns a node whose nestingLevel exceeds the     *)
(* max_level of the call, and a call entered with level > max_level        *)
(* returns the empty sequence (getSpecificTask starts at level 1,          *)
(* getSpecificSubtask at level 2, both with max_level 3).                  *)

IsFetch == lastCall.op \in {"_get_subtasks_recursively", "_get_specific_task",
                            "_get_specific_subtask"}

C1_DepthBounded ==
    IsFetch =>
        /\ \A i \in 1..Len(ret.subTasks) :
               ret.subTasks[i].nestingLevel <= lastCall.max_level
        /\ lastCall.level > lastCall.max_level => ret.subTasks = <<>>

\* a chain deeper than max_level exists under the fetched document and the
\* result was cut at max_level
RECURSIVE DepthBelow(_, _)
DepthBelow(n, ref) ==
    IF n = ref THEN 0
    ELSE IF n = TaskDoc THEN -100
    ELSE 1 + DepthBelow(parentOf[n], ref)

C1_Witness ==
    /\ lastCall.op = "_get_specific_task"
    /\ failNodes = {}
    /\ \E n \in Nodes : DepthBelow(n, TaskDoc) > DefaultMaxLevel
    /\ \E i \in 1..Len(ret.subTasks) : ret.subTasks[i].nestingLevel = DefaultMaxLevel

---------------------------------------------------------------------------
(* C2: when the proposed instant is not strictly after the call's now, the *)
(* stored advice_time is now + delay(priority), with delays 5->10, 4->15,  *)
(* 3->20, 2->25, 1->30 minutes and 15 minutes for any other priority; a    *)
(* proposed instant strictly after now is stored unchanged.                *)

IsCreateAdvice == lastCall.op = "firestore_create_advice_queue"

C2_Delay(priority) ==
    IF priority = 5 THEN 10
    ELSE IF priority = 4 THEN 15
    ELSE IF priority = 3 THEN 20
    ELSE IF priority = 2 THEN 25
    ELSE IF priority = 1 THEN 30
    ELSE 15

---------------------------------------------------------------------------
(* C3: a createAdviceItem call whose effective instant (after the past-due *)
(* adjustment) has a Tokyo hour outside [9,18) returns an error and leaves *)
(* the adviceQueue collection unchanged; every stored item has an          *)
(* advice_time whose Tokyo hour is in [9,18).                              *)

C3_HourInWindow(t) == JstHour(t) \in 9..17

C3_WindowEnforced ==
    [][/\ (/\ lastCall'.op = "firestore_create_advice_queue"
           /\ now' = now
           /\ lastCall'.suggested_time.fmt = "iso"
           /\ ~C3_HourInWindow(EffectiveTime(lastCall'.suggested_time, lastCall'.priority,
                                             lastCall'.current_time)))
          => (ret'.kind = "invalid_time" /\ adviceQueue' = adviceQueue)
       /\ \A id \in 1..Len(adviceQueue') : C3_HourInWindow(adviceQueue'[id].advice_time)
      ]_vars

\* a past-due proposal whose adjusted instant reaches 18:00 was rejected
C3_Witness ==
    /\ IsCreateAdvice
    /\ ret.kind = "invalid_time"
    /\ fromisoformat(lastCall.suggested_time) <= lastCall.current_time
    /\ JstHour(lastCall.current_time) = 17
    /\ JstHour(lastCall.current_time + priority_to_delay(lastCall.priority)) = 18
    /\ adviceQueue = <<>>

---------------------------------------------------------------------------
(* C4: on every successful createAdviceItem call the time reported in the  *)
(* confirmation message equals the advice_time stored for the new item.    *)

C4_ReportsStoredTime ==
    (IsCreateAdvice /\ ret.kind = "queued") =>
        fromisoformat(ret.time) = adviceQueue[ret.id].advice_time

---------------------------------------------------------------------------
(* C5, as claimed: an item is created pending and its status only moves    *)
(* pending -> processing -> completed or pending -> processing -> failed;  *)
(* completed and failed are terminal.                                      *)

C5_Moves ==
    {<<"pending", "processing">>, <<"processing", "completed">>,
     <<"processing", "failed">>}

C5_LifecycleOnly ==
    [][\A id \in 1..Len(adviceQueue') :
          IF id > Len(adviceQueue)
          THEN adviceQueue'[id].status = "pending"
          ELSE \/ adviceQueue'[id].status = adviceQueue[id].status
               \/ <<adviceQueue[id].status, adviceQueue'[id].status>> \in C5_Moves
      ]_vars

(* C5, amended: an item is created pending; its status changes only in a   *)
(* setStatus call on that item, and a successful setStatus stores exactly  *)
(* the status it was given, whatever the item's current status (the        *)
(* transition is not validated, so completed and failed are not terminal). *)

C5_AfterSetStatus ==
    (lastCall.op = "firestore_update_advice_queue_status" /\ ret.kind = "updated") =>
        adviceQueue[lastCall.queue_id].status = lastCall.status

C5_StatusFollowsSetStatus ==
    [][/\ \A id \in 1..Len(adviceQueue') :
             IF id > Len(adviceQueue)
             THEN adviceQueue'[id].status = "pending"
             ELSE adviceQueue'[id].status # adviceQueue[id].status =>
                      /\ lastCall'.op = "firestore_update_advice_queue_status"
                      /\ lastCall'.queue_id = id
                      /\ lastCall'.status = adviceQueue'[id].status
       /\ C5_AfterSetStatus'
      ]_vars

\* an item that already carried a recorded result was set to pending
C5_Witness ==
    /\ lastCall.op = "firestore_update_advice_queue_status"
    /\ ret.kind = "updated"
    /\ lastCall.status = "pending"
    /\ adviceQueue[lastCall.queue_id].status = "pending"
    /\ adviceQueue[lastCall.queue_id].result = Done

---------------------------------------------------------------------------
(* C6: listPending never returns an item whose created_at is older than    *)
(* now - withinHours, never one whose status is outside {pending,          *)
(* processing}, and with a user given never an item of another user.       *)

IsListPending == lastCall.op = "firestore_get_pending_advice_queue"

C6_ListFiltered ==
    IsListPending =>
        \A i \in 1..Len(ret.items) :
            /\ ret.items[i].created_at >= lastCall.current_time - lastCall.hours * 60
            /\ ret.items[i].status \in {"pending", "processing"}
            /\ (lastCall.user_email \notin {None, Str(<<>>)} =>
                    ret.items[i].user_email = lastCall.user_email)

\* a list was returned for a user while an older pending item of that user was left out
C6_Witness ==
    /\ IsListPending
    /\ ret.kind = "list"
    /\ lastCall.user_email = UserA
    /\ lastCall.hours = DefaultHours
    /\ \E id \in 1..Len(adviceQueue) :
           /\ adviceQueue[id].created_at < lastCall.current_time - lastCall.hours * 60
           /\ adviceQueue[id].status = "pending"
           /\ adviceQueue[id].user_email = UserA

---------------------------------------------------------------------------
(* C7: with two workers that each read listPending and then mark the item  *)
(* processing before executing it, no advice item is executed by both.     *)

C7_NoDuplicateExecution ==
    \A id \in DOMAIN executedBy : Cardinality(executedBy[id]) <= 1

---------------------------------------------------------------------------
(* C8: createProject with an empty or missing name returns a structured    *)
(* error and writes nothing: the projects collection is unchanged and the  *)
(* result carries no project id.                                           *)

C8_EmptyNameRejected ==
    [][(/\ lastCall'.op = "firestore_create_project"
        /\ now' = now
        /\ lastCall'.project_name \in {None, Str(<<>>)})
       => (/\ ret' = [kind |-> "error"]
           /\ projects' = projects)
      ]_vars

\* an empty name was rejected while the store already held a project
C8_Witness ==
    /\ lastCall.op = "firestore_create_project"
    /\ lastCall.project_name = Str(<<>>)
    /\ ret.kind = "error"
    /\ Len(projects) = 1

---------------------------------------------------------------------------
(* C9: after createProject or updateProject, every supplied member whose   *)
(* identity lacks '@' is absent from the persisted members array, and      *)
(* every supplied member whose identity contains '@' is persisted with a   *)
(* userRef reference to that user and without a literal email field.       *)

C9_HasAt(x) == x.t = "str" /\ \E i \in 1..Len(x.v) : x.v[i] = "@"

C9_Supplied == lastCall.members.list

C9_MembersNormalized ==
    (/\ lastCall.op \in {"firestore_create_project", "firestore_update_project"}
     /\ ret.kind = "project"
     /\ lastCall.members.given) =>
        LET stored == projects[ret.projectId].members
        IN /\ \A j \in 1..Len(stored) :
                  /\ "userRef" \in DOMAIN stored[j]
                  /\ stored[j]["userRef"].t = "ref"
                  /\ "email" \notin DOMAIN stored[j]
           /\ \A i \in 1..Len(C9_Supplied) :
                  (C9_Supplied[i].kind = "dict"
                   /\ C9_HasAt(MemberIdentity(C9_Supplied[i].d))) =>
                      \E j \in 1..Len(stored) :
                          /\ "userRef" \in DOMAIN stored[j]
                          /\ stored[j]["userRef"] = Ref(MemberIdentity(C9_Supplied[i].d).v)

---------------------------------------------------------------------------
(* C10, as claimed: createProject stores a canonical priority unchanged    *)
(* and stores a raw synonym as its canonical value, so every rule supplied *)
(* with a canonical label or a raw synonym is stored with a priority in    *)
(* {mandatory, high, normal, low}.                                         *)

---------------------------------------------------------------------------
(* C11: a successful updateProject call changes exactly the stored fields  *)
(* whose arguments were supplied (name, status, overview, members, rules)  *)
(* and stamps updatedAt and updatedBy on every call, even when nothing     *)
(* else is supplied; every other field of the project and every other      *)
(* project is unchanged.                                                   *)

C11_Field(old, new, field, supplied, value) ==
    new[field] = IF supplied THEN value ELSE old[field]

C11_PartialPatch ==
    [][(/\ lastCall'.op = "firestore_update_project"
        /\ now' = now
        /\ ret'.kind = "project")
       => LET id == lastCall'.project_id
              old == projects[id]
              new == projects'[id]
          IN /\ Len(projects') = Len(projects)
             /\ \A other \in 1..Len(projects) : other # id => projects'[other] = projects[other]
             /\ DOMAIN new = DOMAIN old
             /\ new.updatedAt = lastCall'.current_time
             /\ new.updatedBy = lastCall'.user_email
             /\ C11_Field(old, new, "projectName", lastCall'.project_name # None,
                          lastCall'.project_name)
             /\ C11_Field(old, new, "status", lastCall'.status # None, lastCall'.status)
             /\ C11_Field(old, new, "projectOverview", lastCall'.project_overview # None,
                          lastCall'.project_overview)
             /\ C11_Field(old, new, "members", lastCall'.members.given,
                          ProcessMembers(lastCall'.members.list))
             /\ C11_Field(old, new, "rules", lastCall'.rules.given, lastCall'.rules.list)
             /\ \A f \in {"projectOwner", "createdAt", "createdBy", "projectId"} :
                    new[f] = old[f]
      ]_vars

\* an update with no field supplied stamped a project that an earlier update
\* had renamed and closed, while a second project exists
C11_Witness ==
    /\ lastCall.op = "firestore_update_project"
    /\ ret.kind = "project"
    /\ lastCall.project_name = None /\ lastCall.status = None
    /\ lastCall.project_overview = None
    /\ ~lastCall.members.given /\ ~lastCall.rules.given
    /\ Len(projects) = 2
    /\ projects[ret.projectId].updatedAt > projects[ret.projectId].createdAt
    /\ projects[ret.projectId].updatedBy = UserB
    /\ projects[ret.projectId].status = Closed
    /\ projects[ret.projectId].projectName = Str(<<>>)

---------------------------------------------------------------------------
(* C12: two concurrent updateProject calls on one project are              *)
(* last-write-wins per field: after any of their store updates, a field    *)
(* holds the value of the last landed update that supplied it, and a field *)
(* supplied by no landed update holds the value it had before the first    *)
(* one landed.                                                             *)

C12_LandedOn(p) == {i \in 1..Len(landings) : calls[landings[i].caller].project_id = p}

C12_Last(S) == CHOOSE i \in S : \A j \in S : j <= i

C12_First(S) == CHOOSE i \in S : \A j \in S : i <= j

C12_LastWriteWins ==
    \A p \in 1..Len(projects) :
        C12_LandedOn(p) # {} =>
            \A f \in DOMAIN projects[p] :
                LET S == {i \in C12_LandedOn(p) :
                             f \in DOMAIN calls[landings[i].caller].update_data}
                IN projects[p][f] =
                       IF S = {} THEN landings[C12_First(C12_LandedOn(p))].prior[f]
                       ELSE calls[landings[C12_Last(S)].caller].update_data[f]

\* both calls landed on project 1; c1 read the clock later but landed first;
\* the name is c2's, the overview c1's, the status c2's
C12_Witness ==
    /\ Len(landings) = 2
    /\ landings[1].caller = "c1" /\ landings[2].caller = "c2"
    /\ calls["c1"].project_id = 1 /\ calls["c2"].project_id = 1
    /\ calls["c1"].update_data.updatedAt > calls["c2"].update_data.updatedAt
    /\ projects[1].projectName = Str(<<"R">>)
    /\ projects[1].projectOverview = Str(<<"o">>)
    /\ projects[1].status = Closed
    /\ projects[1].updatedBy = UserB

---------------------------------------------------------------------------
(* C13, as claimed: getUserTasks with includeCompleted=False returns no    *)
(* task whose status is completed, and for every task it returns it also   *)
(* returns every subtask stored beneath that task, whatever its status.    *)

IsUserTasks == lastCall.op = "firestore_get_user_tasks"

\* the nesting level of document n beneath ref (negative: not beneath ref)
RECURSIVE C13_Level(_, _)
C13_Level(n, ref) ==
    IF n = ref THEN 0
    ELSE IF n \notin Nodes THEN 0 - (MaxNodes + 1)
    ELSE 1 + C13_Level(parentOf[n], ref)

\* every subTasks listing on the way from ref down to n succeeded
RECURSIVE C13_Listed(_, _)
C13_Listed(n, ref) ==
    \/ n = ref
    \/ /\ n \in Nodes
       /\ parentOf[n] \notin failNodes
       /\ C13_Listed(parentOf[n], ref)

C13_Returned(n) ==
    \E j \in 1..Len(ret.tasks) : ret.tasks[j].isSubTask /\ ret.tasks[j].taskId = n

C13_NoCompletedTask ==
    \A i \in 1..Len(ret.tasks) :
        ret.tasks[i].nestingLevel = 0 => ret.tasks[i].status # "completed"

C13_AllSubtasks ==
    (IsUserTasks /\ ~lastCall.include_completed) =>
        /\ C13_NoCompletedTask
        /\ \A i \in 1..Len(ret.tasks) :
               ret.tasks[i].nestingLevel = 0 =>
                   \A n \in Nodes :
                       C13_Level(n, TaskRef(ret.tasks[i].taskId)) > 0 => C13_Returned(n)

(* C13, amended: getUserTasks with includeCompleted=False returns no task  *)
(* whose status is completed, and for every task it returns it also        *)
(* returns every subtask at nesting level 1 to 3 beneath that task that is *)
(* reached through subTasks listings that succeed, whatever the subtask's  *)
(* status; deeper subtasks are not returned.                               *)

C13_SubtasksWithinDepth ==
    (IsUserTasks /\ ~lastCall.include_completed) =>
        /\ C13_NoCompletedTask
        /\ \A i \in 1..Len(ret.tasks) :
               ret.tasks[i].nestingLevel = 0 =>
                   \A n \in Nodes :
                       LET level == C13_Level(n, TaskRef(ret.tasks[i].taskId))
                       IN /\ (level \in 1..3 /\ C13_Listed(n, TaskRef(ret.tasks[i].taskId)))
                              => C13_Returned(n)
                          /\ level > 3 => ~C13_Returned(n)

\* a completed task of the user was left out, task 1 was returned with a
\* completed subtask at level 3, and the subtask at level 4 was cut
C13_Witness ==
    /\ IsUserTasks
    /\ ~lastCall.include_completed
    /\ lastCall.fault = NoFault
    /\ failNodes = {}
    /\ \E t \in 1..Len(tasks) :
           /\ tasks[t].status = "completed"
           /\ tasks[t].assignee = lastCall.email
           /\ tasks[t].projectId = tasks[1].projectId
    /\ \E i \in 1..Len(ret.tasks) : ret.tasks[i].nestingLevel = 0 /\ ret.tasks[i].taskId = 1
    /\ \E j \in 1..Len(ret.tasks) :
           /\ ret.tasks[j].nestingLevel = 3
           /\ ret.tasks[j].status = "completed"
    /\ C13_Level(4, TaskRef(1)) = 4
    /\ ~C13_Returned(4)

---------------------------------------------------------------------------
(* C14, as claimed: the top-level (nestingLevel 0) entries of getUserTasks *)
(* are exactly the tasks of the candidate projects whose assignee equals   *)
(* the user (a string) or contains it (a list).                            *)

C14_Matches(assignee, email) ==
    \/ assignee.t = "str" /\ assignee.v = email.v
    \/ assignee.t = "list" /\ email.v \in {assignee.v[i] : i \in 1..Len(assignee.v)}

\* the given project, or every project that has the user as a member
C14_Candidates ==
    IF lastCall.project_id # 0 THEN {lastCall.project_id}
    ELSE {p \in 1..Len(projects) :
             \E i \in 1..Len(projects[p].members) :
                 projects[p].members[i].userRef = Ref(lastCall.email.v)}

C14_TopLevel == {ret.tasks[i].taskId : i \in {j \in 1..Len(ret.tasks) : ~ret.tasks[j].isSubTask}}

C14_TopLevelExactly ==
    (IsUserTasks /\ lastCall.fault = NoFault) =>
        C14_TopLevel = {t \in 1..Len(tasks) :
                           /\ tasks[t].projectId \in C14_Candidates
                           /\ C14_Matches(tasks[t].assignee, lastCall.email)}

(* C14, amended: the top-level entries of getUserTasks are exactly the     *)
(* tasks that the scan of a candidate project streamed before any store    *)
(* error, whose assignee equals the user (a string) or contains it (a      *)
(* list), and whose status is not completed when includeCompleted is       *)
(* false; a task with any other assignee value or type is never a          *)
(* top-level entry, and no task is entered twice.                          *)

\* task t was streamed before the store error of the call, if any
C14_Streamed(t) ==
    /\ ~(lastCall.fault.kind = "list" /\ lastCall.project_id = 0)
    /\ (lastCall.fault.kind = "project" /\ lastCall.fault.project = tasks[t].projectId) =>
           Cardinality({u \in 1..(t - 1) : tasks[u].projectId = tasks[t].projectId})
               < lastCall.fault.after

C14_TopLevelFiltered ==
    IsUserTasks =>
        /\ C14_TopLevel = {t \in 1..Len(tasks) :
                              /\ tasks[t].projectId \in C14_Candidates
                              /\ C14_Streamed(t)
                              /\ C14_Matches(tasks[t].assignee, lastCall.email)
                              /\ (lastCall.include_completed \/ tasks[t].status # "completed")}
        /\ \A i, j \in 1..Len(ret.tasks) :
               (~ret.tasks[i].isSubTask /\ ~ret.tasks[j].isSubTask
                /\ ret.tasks[i].taskId = ret.tasks[j].taskId) => i = j

\* a@x got a task through a list assignee while a task of the same project
\* assigned to the string b@x stayed out
C14_Witness ==
    /\ IsUserTasks
    /\ lastCall.email = UserA
    /\ lastCall.project_id = 0
    /\ lastCall.fault = NoFault
    /\ \E i \in 1..Len(ret.tasks) :
           /\ ~ret.tasks[i].isSubTask
           /\ ret.tasks[i].assignee.t = "list"
           /\ \E t \in 1..Len(tasks) :
                  /\ tasks[t].projectId = ret.tasks[i].projectId
                  /\ tasks[t].assignee = UserB
                  /\ t \notin C14_TopLevel

---------------------------------------------------------------------------
(* C15: when a store error is raised while one project is scanned, the     *)
(* result of getUserTasks holds no entry of that project and holds every   *)
(* entry of the other candidate projects that the call returns without     *)
(* the error.                                                              *)

C15_Others(entries, failed) ==
    SelectSeq(entries, LAMBDA e : e.projectId # failed)

C15_FailedProjectSkipped ==
    (IsUserTasks /\ lastCall.fault.kind = "project") =>
        /\ \A i \in 1..Len(ret.tasks) : ret.tasks[i].projectId # lastCall.fault.project
        /\ C15_Others(ret.tasks, lastCall.fault.project)
               = C15_Others(_get_user_tasks(lastCall.email, lastCall.project_id,
                                            lastCall.include_completed, NoFault),
                            lastCall.fault.project)

---------------------------------------------------------------------------
(* C16: the sequence the fetcher returns is the pre-order traversal of the *)
(* subtree: each node once, after its parent and before its parent's next  *)
(* sibling, siblings in stream order, each node with the path of its       *)
(* direct parent and a nestingLevel one above its parent's.                *)

C16_Normal == IsFetch /\ ret.kind \in {"subtasks", "task", "subtask"}

C16_Pos(n) == CHOOSE i \in 1..Len(ret.subTasks) : ret.subTasks[i].taskId = n

C16_In(n) == \E i \in 1..Len(ret.subTasks) : ret.subTasks[i].taskId = n

\* the nodes the traversal reaches: within max_level, every listing above succeeded
C16_Reached(n) ==
    /\ C13_Level(n, lastCall.ref) >= 1
    /\ lastCall.level + C13_Level(n, lastCall.ref) - 1 <= lastCall.max_level
    /\ C13_Listed(n, lastCall.ref)

C16_PreOrder ==
    C16_Normal =>
        LET r == ret.subTasks
        IN /\ \A i, j \in 1..Len(r) : r[i].taskId = r[j].taskId => i = j
           /\ failNodes = {} => \A n \in Nodes : C16_Reached(n) => C16_In(n)
           /\ \A i \in 1..Len(r) :
                  /\ r[i].taskId \in Nodes
                  /\ r[i].parentTaskPath = parentOf[r[i].taskId]
                  /\ IF r[i].parentTaskPath = lastCall.ref
                     THEN r[i].nestingLevel = lastCall.level
                     ELSE /\ C16_In(r[i].parentTaskPath)
                          /\ C16_Pos(r[i].parentTaskPath) < i
                          /\ r[i].nestingLevel
                                 = r[C16_Pos(r[i].parentTaskPath)].nestingLevel + 1
           \* siblings in stream (document id) order
           /\ \A i, j \in 1..Len(r) :
                  (i < j /\ r[i].parentTaskPath = r[j].parentTaskPath) =>
                      r[i].taskId < r[j].taskId
           \* a node comes before the next sibling of its parent
           /\ \A i, k \in 1..Len(r) :
                  (C16_In(r[i].parentTaskPath)
                   /\ r[k].parentTaskPath = r[C16_Pos(r[i].parentTaskPath)].parentTaskPath
                   /\ C16_Pos(r[i].parentTaskPath) < k) => i < k

\* a node, then its child, then the node's next sibling
C16_Witness ==
    /\ C16_Normal
    /\ failNodes = {}
    /\ \E i, j, k \in 1..Len(ret.subTasks) :
           /\ i < j /\ j < k
           /\ ret.subTasks[j].parentTaskPath = ret.subTasks[i].taskId
           /\ ret.subTasks[k].parentTaskPath = ret.subTasks[i].parentTaskPath
           /\ ret.subTasks[k].taskId < ret.subTasks[j].taskId

---------------------------------------------------------------------------
(* C17: when listing the children of one node raises a store error, only   *)
(* the levels below that node are empty: the call returns normally and its *)
(* result holds exactly the nodes within max_level that are reached        *)
(* through listings that succeeded, so the failing node itself, its        *)
(* ancestors and the other subtrees stay.                                  *)

C17_FailureIsLocal ==
    /\ lastCall.op = "_get_subtasks_recursively" => ret.kind = "subtasks"
    /\ C16_Normal => \A n \in Nodes : C16_In(n) <=> C16_Reached(n)

\* the listing under node 2 failed: node 2 and a node after it are returned,
\* the child of node 2 is not
C17_Witness ==
    /\ C16_Normal
    /\ failNodes = {2}
    /\ lastCall.ref = TaskDoc
    /\ C16_In(2)
    /\ \E n \in Nodes :
           /\ parentOf[n] = 2
           /\ lastCall.level + C13_Level(n, lastCall.ref) - 1 <= lastCall.max_level
           /\ ~C16_In(n)
    /\ \E n \in Nodes : C16_In(n) /\ C16_Pos(n) > C16_Pos(2)

---------------------------------------------------------------------------
(* C18: no member entry in the result of getAllProjects (the               *)
(* firestore_get_all_projects that importers get) has an isOwner field or  *)
(* a userRef field.                                                        *)

C18_NoOwnerFlagOrRef ==
    lastCall.op = "firestore_get_all_projects" =>
        \A p \in 1..Len(ret.projects) :
            \A i \in 1..Len(ret.projects[p].members) :
                /\ "isOwner" \notin DOMAIN ret.projects[p].members[i]
                /\ "userRef" \notin DOMAIN ret.projects[p].members[i]

---------------------------------------------------------------------------
(* C19: every public operation returns a value (a success payload, a       *)
(* structured error or an explicit-empty marker) for every input and every *)
(* store failure; no call ends with an exception reaching the caller, in   *)
(* particular createProject with string members.                           *)

C19_AlwaysReturns == ret.kind # "raised"

---------------------------------------------------------------------------
(* C20: a store error inside a public read operation is reported as a      *)
(* structured error result that differs from the value the operation       *)
(* returns when nothing matches; for getUserTasks, a call whose project    *)
(* listing fails does not return the no-tasks marker.                      *)

C20_NothingMatches == [kind |-> "no_tasks", tasks |-> <<>>]

C20_ErrorDistinct ==
    (IsUserTasks /\ lastCall.project_id = 0 /\ lastCall.fault.kind = "list") =>
        ret # C20_NothingMatches

IsTeamList == lastCall.op = "_get_team_contexts"

\* every member of the read project is a dict as createProject writes it
C21_WrittenMembers ==
    /\ IsTeamList
    /\ lastCall.fault = NoTeamFault
    /\ lastCall.project_id \in 1..Len(projects)
    /\ \A i \in 1..Len(projects[lastCall.project_id].members) :
           projects[lastCall.project_id].members[i] \in {WrittenMember(UserA), WrittenMember(UserB)}

\* the positions of the returned list tagged with an identity
C21_Tagged(e) ==
    {k \in 1..Len(ret.team_contexts) : ret.team_contexts[k].userEmail = Str(e)}

\* C21: for a project whose members were written by createProject or
\* updateProject, getTeamContexts returns exactly one context for every member
\* that has a record in the named sub-collection, tagged with the member's
\* identity, and with orderByCreatedDesc it is the record of greatest createdAt
C21_OneContextPerMember ==
    C21_WrittenMembers =>
        \A i \in 1..Len(projects[lastCall.project_id].members) :
            LET e == projects[lastCall.project_id].members[i].userRef.v
                stored == users[e][lastCall.collection_name]
                docs == IF lastCall.order_by_created_at THEN Ordered(stored) ELSE stored
            IN IF docs = <<>> THEN C21_Tagged(e) = {}
               ELSE /\ Cardinality(C21_Tagged(e)) = 1
                    /\ lastCall.order_by_created_at =>
                           \A k \in C21_Tagged(e) :
                               ret.team_contexts[k].createdAt = Latest(docs).createdAt

\* what the members other than `failed` append when nothing fails
RECURSIVE C22_Others(_, _, _)
C22_Others(members, j, failed) ==
    IF j > Len(members) THEN <<>>
    ELSE (IF j = failed THEN <<>>
          ELSE MemberContexts(members[j], j, lastCall.collection_name,
                              lastCall.order_by_created_at, NoTeamFault))
         \o C22_Others(members, j + 1, failed)

\* C22: in getTeamContexts a failure while processing one member is
\* contained: that member contributes nothing and the contexts of the members
\* before and after it are returned; an absent project gives the empty list
C22_FailureContained ==
    IsTeamList =>
        /\ ret.kind = "list"
        /\ lastCall.project_id \notin 1..Len(projects) => ret.team_contexts = <<>>
        /\ (lastCall.project_id \in 1..Len(projects) /\ lastCall.fault.kind = "member") =>
               ret.team_contexts =
                   C22_Others(projects[lastCall.project_id].members, 1, lastCall.fault.index)

\* the first member's read fails where it would have given a context, and the
\* second member's context is returned
C22_Witness ==
    /\ IsTeamList
    /\ lastCall.project_id \in 1..Len(projects)
    /\ lastCall.fault = MemberFault(1)
    /\ MemberContexts(projects[lastCall.project_id].members[1], 1, lastCall.collection_name,
                      lastCall.order_by_created_at, NoTeamFault) # <<>>
    /\ Len(ret.team_contexts) = 1

IsTeamEntry ==
    lastCall.op \in {"firestore_get_team_user_contexts", "firestore_get_team_project_contexts"}

\* the calling user's own context exists in the store
C23_OwnContextExists ==
    IF lastCall.op = "firestore_get_team_user_contexts"
    THEN Ordered(users[lastCall.email].userContexts) # <<>>
    ELSE users[lastCall.email].projectContexts # <<>>

\* C23: the individual-plus-team entry points return "None" without any team
\* read whenever the caller's own context does not exist, and fetch the team
\* only after an existing individual context was read
C23_ShortCircuit ==
    IsTeamEntry =>
        /\ ~C23_OwnContextExists => (ret.kind = "None" /\ ret.reads = <<"individual">>)
        /\ (\E k \in 1..Len(ret.reads) : ret.reads[k] # "individual") =>
               ret.individual_context.kind = "context"

\* the value a resolved field holds for a reference: the target's fields
\* (other than a nested member list) plus its key as id, or None
C24_Holds(ref, value) ==
    IF TargetOf(ref) = <<>> THEN value = None
    ELSE /\ value.t = "dict"
         /\ value.fields.id = TargetId(ref)
         /\ \A f \in DOMAIN TargetOf(ref)[1] \ {"members", "id"} :
                value.fields[f] = TargetOf(ref)[1][f]

\* the stored context `stored` was returned as `context`
C24_Context(stored, context) ==
    IsReference(stored.projectInfo) =>
        /\ C24_Holds(stored.projectInfo, context.projectInfo)
        /\ TargetOf(stored.projectInfo) # <<>> =>
               LET before == TargetOf(stored.projectInfo)[1].members
                   after == context.projectInfo.fields.members
               IN /\ Len(after) = Len(before)
                  /\ \A i \in 1..Len(before) :
                         IF ~IsReference(before[i]) /\ "userRef" \in DOMAIN before[i]
                            /\ IsReference(before[i].userRef)
                         THEN C24_Holds(before[i].userRef, after[i].userRef)
                         ELSE after[i] = before[i]

\* C24: resolving a context's projectInfo, and each member's userRef inside
\* it, replaces the reference by the target's fields plus an id equal to the
\* target's key, or by null when the target is absent; a missing target never
\* makes the enclosing operation fail
C24_ReferencesResolved ==
    /\ (lastCall.op = "firestore_get_project_context" /\ lastCall.fault = NoTeamFault
        /\ users[lastCall.email].projectContexts # <<>>) =>
           /\ ret.kind = "context"
           /\ C24_Context(users[lastCall.email].projectContexts[1], ret.context[1])
    /\ (IsTeamList /\ lastCall.collection_name = "projectContexts") =>
           \A k \in 1..Len(ret.team_contexts) :
               C24_Context(users[ret.team_contexts[k].userEmail.v].projectContexts[1],
                           ret.team_contexts[k])

\* a project context comes back with its project resolved, one member
\* resolved to a user document and one member's missing target set to null
C24_Witness ==
    /\ lastCall.op = "firestore_get_project_context"
    /\ ret.kind = "context"
    /\ ret.context[1].projectInfo.t = "dict"
    /\ \E i, j \in 1..Len(ret.context[1].projectInfo.fields.members) :
           LET members == ret.context[1].projectInfo.fields.members
           IN /\ ~IsReference(members[i]) /\ "userRef" \in DOMAIN members[i]
              /\ members[i].userRef = None
              /\ ~IsReference(members[j]) /\ "userRef" \in DOMAIN members[j]
              /\ members[j].userRef.t = "dict"

IsSetStatus == lastCall.op = "firestore_update_advice_queue_status"

\* the fields of an item that setStatus never names
C25_KeptFields ==
    {"user_email", "project_id", "task_id", "advice_type", "priority", "reason",
     "advice_time", "created_at"}

\* C25: setStatus on an existing item changes only status, processed_at
\* (stamped on every call) and, only when a result is supplied, result; with
\* result omitted the stored result is kept, and every other field and every
\* other item is unchanged
C25_SetStatusFrame ==
    [][(lastCall'.op = "firestore_update_advice_queue_status" /\ now' = now
        /\ lastCall'.queue_id \in 1..Len(adviceQueue) /\ ret'.kind = "updated") =>
           /\ Len(adviceQueue') = Len(adviceQueue)
           /\ \A id \in 1..Len(adviceQueue) :
                  IF id = lastCall'.queue_id
                  THEN /\ \A f \in C25_KeptFields : adviceQueue'[id][f] = adviceQueue[id][f]
                       /\ adviceQueue'[id].status = lastCall'.status
                       /\ adviceQueue'[id].processed_at = now
                       /\ adviceQueue'[id].result =
                              IF lastCall'.result = None THEN adviceQueue[id].result
                              ELSE lastCall'.result
                  ELSE adviceQueue'[id] = adviceQueue[id]
      ]_vars

\* a later setStatus without a result restamped processed_at and kept the
\* result an earlier call had stored, with another item in the queue
C25_Witness ==
    /\ IsSetStatus
    /\ ret.kind = "updated"
    /\ lastCall.result = None
    /\ adviceQueue[lastCall.queue_id].result = Done
    /\ adviceQueue[lastCall.queue_id].processed_at > adviceQueue[lastCall.queue_id].created_at
    /\ Len(adviceQueue) > 1

\* C26: every stored advice item has an integer priority in [1,5]
C26_PriorityInRange ==
    \A id \in 1..Len(adviceQueue) : adviceQueue[id].priority \in 1..5

\* C27: an item persisted by createAdviceItem has status pending, processed_at
\* and result empty, created_at equal to the now read in the call, and an
\* advice_time strictly later than created_at, later by exactly the priority
\* delay when the proposal was past-due
C27_CreatedShape ==
    (IsCreateAdvice /\ ret.kind = "queued") =>
        LET item == adviceQueue[ret.id]
            proposed == lastCall.suggested_time.wall - lastCall.suggested_time.offset
        IN /\ item.status = "pending"
           /\ item.processed_at = NoTime
           /\ item.result = None
           /\ item.created_at = lastCall.current_time
           /\ item.advice_time > item.created_at
           /\ proposed <= lastCall.current_time =>
                  item.advice_time - item.created_at = C2_Delay(lastCall.priority)

\* a proposal for the very instant of the call was stored one delay later
C27_Witness ==
    /\ IsCreateAdvice
    /\ ret.kind = "queued"
    /\ fromisoformat(lastCall.suggested_time) = lastCall.current_time
    /\ adviceQueue[ret.id].advice_time = adviceQueue[ret.id].created_at + 10

\* C28: setStatus and updateProject never create documents: with an id that
\* names no stored item or project each returns an error and leaves the store
\* unchanged, so the stored ids only grow through createAdviceItem and
\* createProject, one id at a time
C28_NoUpsert ==
    [][/\ (lastCall'.op = "firestore_update_advice_queue_status"
           /\ lastCall'.queue_id \notin 1..Len(adviceQueue)) =>
              (ret'.kind = "error" /\ adviceQueue' = adviceQueue /\ projects' = projects)
       /\ (lastCall'.op = "firestore_update_project"
           /\ lastCall'.project_id \notin 1..Len(projects)) =>
              (ret'.kind = "error" /\ adviceQueue' = adviceQueue /\ projects' = projects)
       /\ Len(adviceQueue') # Len(adviceQueue) =>
              (lastCall'.op = "firestore_create_advice_queue"
               /\ Len(adviceQueue') = Len(adviceQueue) + 1)
       /\ Len(projects') # Len(projects) =>
              (lastCall'.op = "firestore_create_project"
               /\ Len(projects') = Len(projects) + 1)
      ]_vars

\* setStatus was called with an unknown id on a store that holds an item and a
\* project, and reported an error
C28_Witness ==
    /\ IsSetStatus
    /\ lastCall.queue_id \notin 1..Len(adviceQueue)
    /\ ret.kind = "error"
    /\ Len(adviceQueue) >= 1
    /\ Len(projects) >= 1

\* C29: every execute call that moved the task to working ends by reporting
\* exactly one outcome (input-required, completed or failed): execute never
\* returns with the task still working
C29_OneOutcome ==
    \A e \in Execs :
        execs[e].pc = "done" =>
            /\ execs[e].task \in Outcomes
            /\ Len(execs[e].reported) = 1

\* C30: in any interleaving of execute calls at most one session is ever
\* created for a context_id, and a mapping that holds a session_id is never
\* overwritten and is the session every later call runs the agent with
C30_OneSessionPerContext ==
    [][/\ \A c \in Contexts :
             Cardinality({i \in 1..Len(sessions') : sessions'[i].context_id = c}) <= 1
       /\ \A c \in Contexts :
             mappings[c] # NoSession => mappings'[c] = mappings[c]
       /\ \A e \in Execs :
             (execs[e].pc = "run" /\ execs'[e].pc = "done") =>
                 lastCall'.session_id = mappings[execs[e].context_id]
      ]_vars

====
